---- MODULE Spec2Model ----
(***************************************************************************)
(* Verification model of the agent runtime core:                           *)
(*   - AggressiveStreamingAssistantMessageParser (types/assistant_message) *)
(*   - FileOperationManager (storage/file_operation_manager)               *)
(*   - the path handling of the file tools (agents/coder/tool_executor)    *)
(*   - the turn handling of CoderAgent._recursively_process_messages       *)
(* Strings are sequences of one-character strings, so that the parser's    *)
(* character-level automaton is modelled character by character.           *)
(***************************************************************************)
EXTENDS Integers, Sequences, FiniteSets, TLC

(***************************************************************************)
(* Bounds of the model.                                                    *)
(***************************************************************************)
\* number of tokens an enumerated parser input is made of
MaxTokens == 3
\* number of changes recorded in one turn
MaxChanges == 2
\* number of pre-commit hooks registered
MaxWriteHooks == 2
\* number of post-commit hooks registered
MaxPostHooks == 2
\* number of distinct turn identifiers
MaxTurnId == 1
\* number of threads calling the list store
NumThreads == 2
\* number of values one rpush or lpush call is given
MaxPush == 2
\* number of messages the list grows to when one thread calls the store
MaxMessages == 6
\* number of messages the list grows to when all threads call the store
MaxShared == 2
\* clock ticks in one second
TicksPerSecond == 2
\* number of clock ticks the store is followed for
MaxTime == 2
\* compact_threshold_tokens of the modelled store, in tokens
compact_threshold_tokens == 2
\* number of tool uses the model requests in one task
MaxTools == 5
\* number of nested frames of _recursively_process_messages
MaxDepth == 5
\* number of abort() calls
MaxAborts == 1
\* number of follow-up questions in one response of the model
MaxFollowups == 1
\* number of tool uses in one response of the model
MaxPerResponse == 3
\* number of tokens a parsed response of the model is made of
MaxTurnTokens == 2
\* number of tool uses in the parsed responses of one task
MaxTurnTools == 4
\* number of tool results recorded by calls on the state manager alone
MaxRecorded == 2

(***************************************************************************)
(* Generic helpers on strings (sequences of characters).                   *)
(***************************************************************************)
\* Python's None for names and strings that are only tested for truthiness
None == <<>>

\* str.startswith: full starts with prefix
startswith(full, prefix) ==
  /\ Len(prefix) <= Len(full)
  /\ SubSeq(full, 1, Len(prefix)) = prefix

RECURSIVE lstrip(_, _)
\* str.lstrip(ch): drop every leading ch
lstrip(str, ch) ==
  IF str # <<>> /\ Head(str) = ch THEN lstrip(Tail(str), ch) ELSE str

RECURSIVE rstrip(_, _)
\* str.rstrip(ch): drop every trailing ch
rstrip(str, ch) ==
  IF str # <<>> /\ str[Len(str)] = ch
  THEN rstrip(SubSeq(str, 1, Len(str) - 1), ch)
  ELSE str

(***************************************************************************)
(* types/assistant_message.py: the tag vocabulary.                         *)
(***************************************************************************)
ToolUseName ==
  << <<"r","e","a","d","-","f","i","l","e">>,
     <<"w","r","i","t","e","-","t","o","-","f","i","l","e">>,
     <<"a","p","p","l","y","-","d","i","f","f">>,
     <<"s","e","a","r","c","h","-","f","i","l","e","s">>,
     <<"l","i","s","t","-","f","i","l","e","s">>,
     <<"a","s","k","-","f","o","l","l","o","w","u","p","-","q","u","e","s","t","i","o","n">>,
     <<"d","e","l","e","t","e","-","f","i","l","e">>,
     <<"r","e","n","a","m","e","-","f","i","l","e">>,
     <<"a","d","d","-","d","e","p","e","n","d","e","n","c","y">>,
     <<"k","b","-","s","e","a","r","c","h">> >>

ToolParamName ==
  << <<"p","a","t","h">>,
     <<"c","o","n","t","e","n","t">>,
     <<"d","i","f","f">>,
     <<"r","e","c","u","r","s","i","v","e">>,
     <<"r","e","g","e","x">>,
     <<"f","i","l","e","-","p","a","t","t","e","r","n">>,
     <<"s","o","u","r","c","e">>,
     <<"d","e","s","t","i","n","a","t","i","o","n">>,
     <<"n","a","m","e">>,
     <<"q","u","e","r","y">>,
     <<"q","u","e","s","t","i","o","n">> >>

THINKING == <<"t","h","i","n","k","i","n","g">>

\* the empty dict {}
EmptyMap == [n \in {} |-> <<>>]

\* dict[key] = value
MapSet(map, key, value) ==
  [n \in DOMAIN map \cup {key} |-> IF n = key THEN value ELSE map[n]]

(***************************************************************************)
(* The events the parser emits.  A started event carries params=None,      *)
(* written here as the empty map.                                          *)
(***************************************************************************)
TextEvent(text) == [type |-> "text", text |-> text]

ThinkingEvent(text) == [type |-> "thinking", text |-> text]

ToolEvent(tool_name, tool_id, status, params) ==
  [type |-> "tool", tool_name |-> tool_name, tool_id |-> tool_id,
   status |-> status, params |-> params]

(***************************************************************************)
(* AggressiveStreamingAssistantMessageParser.                              *)
(* A parser value m is [st, out, uid]: the instance's fields, the events   *)
(* yielded so far, and the number of identifiers uuid4() has handed out.   *)
(* current_tool holds the tool's name (None when there is no tool) and     *)
(* current_tool_id is 0 for None.                                          *)
(***************************************************************************)
reset_state ==
  [in_thinking_block |-> FALSE,
   in_tool_block     |-> FALSE,
   current_tool      |-> None,
   current_param_name |-> None,
   partial_tag       |-> <<>>,
   partial_param     |-> <<>>,
   current_params    |-> EmptyMap,
   current_tool_id   |-> 0,
   thinking_buffer   |-> <<>>,
   text_buffer       |-> <<>>,
   accumulating_tag  |-> FALSE,
   accumulated_tag   |-> <<>>]

NewParser == [st |-> reset_state, out |-> <<>>, uid |-> 0]

\* a flush that yields the buffered text but keeps it buffered, so that the
\* next flush yields it again
flush_buffers_keeping(m) ==
  IF m.st.thinking_buffer # <<>> /\ m.st.in_thinking_block
  THEN [m EXCEPT !.out = Append(@, ThinkingEvent(m.st.thinking_buffer))]
  ELSE IF /\ m.st.text_buffer # <<>>
          /\ ~m.st.in_tool_block
          /\ ~m.st.in_thinking_block
  THEN [m EXCEPT !.out = Append(@, TextEvent(m.st.text_buffer))]
  ELSE m

\* AggressiveStreamingAssistantMessageParser._flush_buffers
flush_buffers(m) ==
  IF m.st.thinking_buffer # <<>> /\ m.st.in_thinking_block
  THEN [m EXCEPT !.out = Append(@, ThinkingEvent(m.st.thinking_buffer)),
                 !.st.thinking_buffer = <<>>]
  ELSE IF /\ m.st.text_buffer # <<>>
          /\ ~m.st.in_tool_block
          /\ ~m.st.in_thinking_block
  THEN [m EXCEPT !.out = Append(@, TextEvent(m.st.text_buffer)),
                 !.st.text_buffer = <<>>]
  ELSE m

RECURSIVE MatchNames(_, _, _)
\* one "for x in Enum" loop of _detect_possible_tag over the names from
\* index i on: "exact" with the name, "partial", or "none" when the loop
\* ends without returning
MatchNames(names, tag, i) ==
  IF i > Len(names) THEN [kind |-> "none", name |-> None]
  ELSE IF names[i] = tag THEN [kind |-> "exact", name |-> names[i]]
  ELSE IF startswith(names[i], tag) THEN [kind |-> "partial", name |-> None]
  ELSE MatchNames(names, tag, i + 1)

\* (tool_name, param_name, is_closing); is_closing None is written FALSE,
\* the callers only test its truth value
detect_possible_tag(rawtag) ==
  LET stripped   == rstrip(lstrip(rawtag, "<"), ">")
      is_closing == stripped # <<>> /\ Head(stripped) = "/"
      tag        == IF is_closing THEN Tail(stripped) ELSE stripped
      tm         == MatchNames(ToolUseName, tag, 1)
      pm         == MatchNames(ToolParamName, tag, 1)
  IN  IF tm.kind = "exact"
        THEN [tool_name |-> tm.name, param_name |-> None, is_closing |-> is_closing]
      ELSE IF tm.kind = "partial"
        THEN [tool_name |-> None, param_name |-> None, is_closing |-> is_closing]
      ELSE IF pm.kind = "exact"
        THEN [tool_name |-> None, param_name |-> pm.name, is_closing |-> is_closing]
      ELSE IF pm.kind = "partial"
        THEN [tool_name |-> None, param_name |-> None, is_closing |-> is_closing]
      ELSE IF tag = THINKING
        THEN [tool_name |-> THINKING, param_name |-> None, is_closing |-> is_closing]
      ELSE IF startswith(THINKING, tag)
        THEN [tool_name |-> None, param_name |-> None, is_closing |-> is_closing]
      ELSE [tool_name |-> None, param_name |-> None, is_closing |-> FALSE]

\* an unrecognised tag that is dropped instead of being kept as literal text
UnrecognizedTag_dropping(m, acc) ==
  [m EXCEPT !.st.accumulating_tag = FALSE, !.st.accumulated_tag = <<>>]

\* the accumulated tag ended with ">" and is not a recognised tag: it is
\* literal text of whichever buffer is active
UnrecognizedTag(m, acc) ==
  LET st == m.st
      st1 == IF st.current_param_name # None
               THEN [st EXCEPT !.partial_param = @ \o acc]
             ELSE IF st.in_thinking_block
               THEN [st EXCEPT !.thinking_buffer = @ \o acc]
             ELSE IF ~st.in_tool_block
               THEN [st EXCEPT !.text_buffer = @ \o acc]
             ELSE st
  IN  [m EXCEPT !.st = [st1 EXCEPT !.accumulating_tag = FALSE,
                                   !.accumulated_tag = <<>>]]

\* the accumulated tag ended with ">" and is a recognised tag
RecognizedTag(m, d) ==
  LET m1 ==
        IF d.tool_name = THINKING THEN
          [flush_buffers(m) EXCEPT !.st.in_thinking_block = ~d.is_closing]
        ELSE IF d.tool_name # None THEN
          IF ~d.is_closing THEN
            LET f == flush_buffers(m)
                id == f.uid + 1
            IN  [f EXCEPT !.st.in_tool_block = TRUE,
                          !.st.current_tool = d.tool_name,
                          !.st.current_tool_id = id,
                          !.uid = id,
                          !.out = Append(@, ToolEvent(d.tool_name, id,
                                                      "started", EmptyMap))]
          ELSE IF /\ m.st.in_tool_block
                  /\ m.st.current_tool # None
                  /\ m.st.current_tool_id # 0 THEN
            [m EXCEPT !.out = Append(@, ToolEvent(m.st.current_tool,
                                                  m.st.current_tool_id,
                                                  "executing",
                                                  m.st.current_params)),
                      !.st.in_tool_block = FALSE,
                      !.st.current_tool = None,
                      !.st.current_params = EmptyMap]
          ELSE m
        ELSE IF d.param_name # None /\ m.st.in_tool_block THEN
          IF ~d.is_closing THEN
            [m EXCEPT !.st.current_param_name = d.param_name,
                      !.st.partial_param = <<>>]
          ELSE IF m.st.current_param_name # None THEN
            LET params == MapSet(m.st.current_params,
                                   m.st.current_param_name,
                                   m.st.partial_param)
                emit == m.st.current_tool # None /\ m.st.current_tool_id # 0
            IN  [m EXCEPT !.st.current_params = params,
                          !.out = IF emit
                                  THEN Append(@, ToolEvent(m.st.current_tool,
                                                           m.st.current_tool_id,
                                                           "partial", params))
                                  ELSE @,
                          !.st.current_param_name = None]
          ELSE m
        ELSE m
  IN  [m1 EXCEPT !.st.accumulating_tag = FALSE, !.st.accumulated_tag = <<>>]

\* one iteration of the "while content" loop of __call__: consumes content[0]
ProcessChar(m, c) ==
  IF m.st.accumulating_tag THEN
    IF c = ">" THEN
      LET d == detect_possible_tag(Append(m.st.accumulated_tag, c))
      IN  IF d.tool_name = None /\ d.param_name = None
          THEN UnrecognizedTag(m, Append(m.st.accumulated_tag, c))
          ELSE RecognizedTag(m, d)
    ELSE [m EXCEPT !.st.accumulated_tag = Append(@, c)]
  ELSE IF c = "<" THEN
    [m EXCEPT !.st.accumulating_tag = TRUE, !.st.accumulated_tag = <<"<">>]
  ELSE IF m.st.current_param_name # None THEN
    [m EXCEPT !.st.partial_param = Append(@, c)]
  ELSE IF m.st.in_thinking_block THEN
    [m EXCEPT !.st.thinking_buffer = Append(@, c)]
  ELSE IF ~m.st.in_tool_block THEN
    [m EXCEPT !.st.text_buffer = Append(@, c)]
  ELSE m

RECURSIVE ProcessContent(_, _)
\* the "while content" loop of __call__ on the characters of content
ProcessContent(m, content) ==
  IF content = <<>> THEN m
  ELSE ProcessContent(ProcessChar(m, Head(content)), Tail(content))

\* __call__(chunk), its statements before the characters of chunk are
\* reached: content = partial_tag + chunk, partial_tag = ""
StartChunk(m) ==
  ProcessContent([m EXCEPT !.st.partial_tag = <<>>], m.st.partial_tag)

\* __call__(chunk), its last statement: the flush at the end of the chunk
EndChunk(m) == flush_buffers(m)

\* an end of stream that flushes the buffers and keeps the state
FeedEnd_without_reset(m) == flush_buffers(m)

\* __call__(None): end of stream
FeedEnd(m) == [flush_buffers(m) EXCEPT !.st = reset_state]

(***************************************************************************)
(* The streams the parser is run on.                                       *)
(***************************************************************************)
OpenTag(name) == <<"<">> \o name \o <<">">>

CloseTag(name) == <<"<", "/">> \o name \o <<">">>

READ_FILE == ToolUseName[1]

WRITE_TO_FILE == ToolUseName[2]

PATH == ToolParamName[1]

CONTENT == ToolParamName[2]

\* the pieces the enumerated streams are made of: plain text, stray angle
\* brackets, an unknown tag, and thinking, tool and parameter tags
InputTokens ==
  { <<"a">>, <<"<">>, <<">">>, <<"<", "y", ">">>,
    OpenTag(THINKING), CloseTag(THINKING),
    OpenTag(READ_FILE), CloseTag(READ_FILE),
    OpenTag(PATH), CloseTag(PATH) }

RECURSIVE TokenStrings(_)
\* every concatenation of at most n tokens
TokenStrings(n) ==
  IF n = 0 THEN { <<>> }
  ELSE LET shorter == TokenStrings(n - 1)
       IN  shorter \cup { s \o t : s \in shorter, t \in InputTokens }

\* tag-like substrings that are no tool name, parameter name or "thinking"
UnknownTags ==
  { <<"<", "y", ">">>, <<"<", "/", "y", ">">>, <<"<", ">">>,
    <<"<", "p", "a", "t", ">">>, <<"<", "t", "h", "i", "n", "k", ">">>,
    <<"<", "/", "w", "r", "i", "t", "e", ">">> }

\* content values with one tag-like substring, x<y>z among them
WriteContents ==
  { pre \o u \o post : pre \in { <<>>, <<"x">> }, u \in UnknownTags,
                       post \in { <<>>, <<"z">> } }

\* content values with whitespace around the text
PaddedContents ==
  { <<" ", "x">>, <<"x", " ">>, <<" ", "x", " ">> }

A_TXT == <<"a", ".", "t", "x", "t">>

\* <write-to-file><path>a.txt</path><content>c</content></write-to-file>
WriteBlock(c) ==
  OpenTag(WRITE_TO_FILE) \o OpenTag(PATH) \o A_TXT \o CloseTag(PATH)
    \o OpenTag(CONTENT) \o c \o CloseTag(CONTENT) \o CloseTag(WRITE_TO_FILE)

\* <read-file><path>a.txt</path></read-file><read-file></read-file>a: a
\* block with a parameter, a block without one, then text
SequentialBlocks ==
  OpenTag(READ_FILE) \o OpenTag(PATH) \o A_TXT \o CloseTag(PATH) \o CloseTag(READ_FILE)
    \o OpenTag(READ_FILE) \o CloseTag(READ_FILE) \o <<"a">>

\* <write-to-file><path>a.txt</path><read-file></read-file>: a block opened
\* inside a block that is never closed
NestedBlock ==
  OpenTag(WRITE_TO_FILE) \o OpenTag(PATH) \o A_TXT \o CloseTag(PATH)
    \o OpenTag(READ_FILE) \o CloseTag(READ_FILE)

\* <read-file><path>a.txt</read-file>a: a block closed while its parameter
\* is open, then text
OpenParamBlock ==
  OpenTag(READ_FILE) \o OpenTag(PATH) \o A_TXT \o CloseTag(READ_FILE) \o <<"a">>

ToolBlockInputs == { SequentialBlocks, NestedBlock, OpenParamBlock }

ParserInputs ==
  (TokenStrings(MaxTokens) \ { <<>> })
    \cup { WriteBlock(c) : c \in WriteContents \cup PaddedContents }
    \cup ToolBlockInputs

(***************************************************************************)
(* Paths.  A path string is the sequence of its "/"-separated components;  *)
(* an absolute path starts with the empty component, as "/ws".split("/").  *)
(***************************************************************************)
\* os.path.isabs
isabs(path) == path # <<>> /\ path[1] = ""

RECURSIVE NormComps(_, _, _)
\* the component loop of posixpath.normpath
NormComps(comps, new_comps, initial_slashes) ==
  IF comps = <<>> THEN new_comps
  ELSE LET comp == Head(comps)
           n    == Len(new_comps)
       IN  IF comp \in {"", "."}
             THEN NormComps(Tail(comps), new_comps, initial_slashes)
           ELSE IF \/ comp # ".."
                   \/ (~initial_slashes /\ n = 0)
                   \/ (n > 0 /\ new_comps[n] = "..")
             THEN NormComps(Tail(comps), Append(new_comps, comp), initial_slashes)
           ELSE IF n > 0
             THEN NormComps(Tail(comps), SubSeq(new_comps, 1, n - 1), initial_slashes)
           ELSE NormComps(Tail(comps), new_comps, initial_slashes)

\* os.path.normpath
normpath(path) ==
  LET new_comps == NormComps(path, <<>>, isabs(path))
  IN  IF isabs(path) THEN <<"">> \o new_comps
      ELSE IF new_comps = <<>> THEN <<".">>
      ELSE new_comps

\* os.path.join(a, b)
join(a, b) == IF isabs(b) THEN b ELSE a \o b

\* str(Path(a) / b): pathlib drops "." and empty components, keeps ".."
PathJoin(a, b) ==
  LET clean(p) == SelectSeq(p, LAMBDA c : c \notin {"", "."})
  IN  IF isabs(b) THEN <<"">> \o clean(b) ELSE a \o clean(b)

\* the working directory of the manager and of the tools
CWD == <<"", "ws">>

PROTECTED_PATHS == { ".lovable" }

PROTECTED_FILES == { <<"src", "tsconfig.json">> }

\* a check that knows the protected files but not the protected directories
is_protected_file(relative_path) == normpath(relative_path) \in PROTECTED_FILES

\* FileOperationManager._is_protected_path
is_protected_path(relative_path) ==
  LET norm_path == normpath(relative_path)
  IN  \/ norm_path \in PROTECTED_FILES
      \/ \E i \in 1 .. Len(norm_path) :
           /\ norm_path[i] \notin {"", "."}
           /\ norm_path[i] \in PROTECTED_PATHS

\* FileOperationManager.resolve_path
resolve_path(path) ==
  IF isabs(path) THEN path ELSE normpath(join(CWD, path))

(***************************************************************************)
(* The workspace on disk: file contents by normalised absolute path.       *)
(* The directories of the workspace exist throughout.                      *)
(***************************************************************************)
Absent == <<"<absent>">>

V0 == <<"v", "0">>

V1 == <<"v", "1">>

A_FILE == <<"a.txt">>

B_FILE == <<"b.txt">>

\* the paths the callers of the commit-pipeline specification use
BasicPaths == { A_FILE, B_FILE }

\* the paths the callers of the path-protection specification use
AllPaths ==
  { A_FILE, B_FILE,
    <<"src", "tsconfig.json">>,
    <<".", "src", "tsconfig.json">>,
    <<".lovable", "x">>,
    <<"src", ".lovable", "x">>,
    <<".lovable", "..", "a.txt">>,
    <<"", "ws", ".lovable", "x">> }

\* the file a path names on disk
DiskKey(path) == normpath(join(CWD, path))

\* before the first turn every file but b.txt exists
InitialDisk(paths) ==
  [k \in { DiskKey(p) : p \in paths } |->
     IF k = DiskKey(B_FILE) THEN Absent ELSE V0]

\* os.path.exists
exists(d, path) == DiskKey(path) \in DOMAIN d /\ d[DiskKey(path)] # Absent

(***************************************************************************)
(* FileOperationManager: turns and the operations that record changes.     *)
(* _current_turn is a sequence of length 0 (None) or 1 (the WriteTurn).    *)
(***************************************************************************)
FileChange(path, change_type, content) ==
  [path |-> path, change_type |-> change_type, content |-> content]

WriteTurn(turn_id) ==
  [turn_id |-> turn_id, cwd |-> CWD, changes |-> <<>>, hook_results |-> EmptyMap]

\* the result of a call: the turn afterwards and the exception raised ("" none)
Result(turn, error) == [turn |-> turn, error |-> error]

Record(turn, change) ==
  Result(<< [turn[1] EXCEPT !.changes = Append(@, change)] >>, "")

\* FileOperationManager.begin_turn
begin_turn(turn, turn_id) ==
  IF turn # <<>> THEN Result(turn, "RuntimeError: turn still active")
  ELSE Result(<< WriteTurn(turn_id) >>, "")

\* a discard that leaves the turn in place
discard_turn_keeping(turn) == turn

\* FileOperationManager.discard_turn
discard_turn(turn) == <<>>

\* FileOperationManager.write_file
write_file(turn, path, content) ==
  IF turn = <<>> THEN Result(turn, "RuntimeError: no active turn")
  ELSE IF is_protected_path(path) THEN Result(turn, "RuntimeError: protected")
  ELSE Record(turn, FileChange(resolve_path(path), "write", content))

\* FileOperationManager.delete_file
delete_file(turn, d, path) ==
  IF turn = <<>> THEN Result(turn, "RuntimeError: no active turn")
  ELSE IF is_protected_path(path) THEN Result(turn, "RuntimeError: protected")
  ELSE IF ~exists(d, resolve_path(path)) THEN Result(turn, "FileNotFoundError")
  ELSE Record(turn, FileChange(resolve_path(path), "delete", <<>>))

\* FileOperationManager.rename_file
rename_file(turn, d, source_path, destination_path) ==
  IF turn = <<>> THEN Result(turn, "RuntimeError: no active turn")
  ELSE IF is_protected_path(source_path)
    THEN Result(turn, "RuntimeError: protected")
  ELSE IF is_protected_path(destination_path)
    THEN Result(turn, "RuntimeError: protected")
  ELSE IF ~exists(d, resolve_path(source_path))
    THEN Result(turn, "FileNotFoundError")
  ELSE IF exists(d, resolve_path(destination_path))
    THEN Result(turn, "FileExistsError")
  ELSE Record(turn, FileChange(resolve_path(source_path), "rename",
                               resolve_path(destination_path)))

\* FileOperationManager.add_dependency
add_dependency(turn, name) ==
  IF turn = <<>> THEN Result(turn, "RuntimeError: no active turn")
  ELSE Record(turn, FileChange(<<>>, "add_dependency", name))

(***************************************************************************)
(* agents/coder/tool_executor.py: the file tools.  Tool names and          *)
(* parameter names are plain strings here; params maps names to values.    *)
(***************************************************************************)
required_params ==
  ("read-file" :> <<"path">>) @@
  ("write-to-file" :> <<"path", "content">>) @@
  ("apply-diff" :> <<"path", "diff">>) @@
  ("delete-file" :> <<"path">>) @@
  ("rename-file" :> <<"source", "destination">>) @@
  ("add-dependency" :> <<"name">>) @@
  ("search-files" :> <<"path", "regex">>) @@
  ("list-files" :> <<"path">>) @@
  ("ask-followup-question" :> <<"question">>)

\* a validation that accepts absolute paths
validate_tool_params_any_path(tool_name, params) ==
  LET req == IF tool_name \in DOMAIN required_params
             THEN required_params[tool_name] ELSE <<>>
      bad(i) == req[i] \notin DOMAIN params \/ params[req[i]] = <<>>
  IN  IF tool_name \notin DOMAIN required_params THEN "ToolError: UNKNOWN_TOOL"
      ELSE IF \E i \in 1 .. Len(req) : bad(i) THEN
        LET first == CHOOSE i \in 1 .. Len(req) :
                       bad(i) /\ \A j \in 1 .. (i - 1) : ~bad(j)
        IN  IF req[first] \notin DOMAIN params
            THEN "ToolError: MISSING_PARAM" ELSE "ToolError: INVALID_PARAM"
      ELSE ""

\* ToolExecutor.validate_tool_params: the ToolError code raised, "" if none
validate_tool_params(tool_name, params) ==
  LET req == IF tool_name \in DOMAIN required_params
             THEN required_params[tool_name] ELSE <<>>
      bad(i) == req[i] \notin DOMAIN params \/ params[req[i]] = <<>>
      path_params == {"path", "source", "destination"}
  IN  IF tool_name \notin DOMAIN required_params THEN "ToolError: UNKNOWN_TOOL"
      ELSE IF \E i \in 1 .. Len(req) : bad(i) THEN
        LET first == CHOOSE i \in 1 .. Len(req) :
                       bad(i) /\ \A j \in 1 .. (i - 1) : ~bad(j)
        IN  IF req[first] \notin DOMAIN params
            THEN "ToolError: MISSING_PARAM" ELSE "ToolError: INVALID_PARAM"
      ELSE IF \E p \in path_params \cap DOMAIN params : isabs(params[p])
        THEN "ToolError: INVALID_PATH"
      ELSE ""

\* what a tool's "except Exception" makes of the manager's result
Wrap(turn, r, code) == IF r.error = "" THEN r ELSE Result(turn, code)

\* WriteFileTool.execute
WriteFileTool(turn, path, content) ==
  LET file_path == PathJoin(CWD, path)
  IN  Wrap(turn, write_file(turn, file_path, content), "ToolError: WRITE_ERROR")

\* ApplyDiffTool.execute; merge_ok is the outcome of merge_diff and
\* merged_code its result
ApplyDiffTool(turn, d, path, merge_ok, merged_code) ==
  LET file_path == PathJoin(CWD, path)
  IN  IF ~exists(d, file_path) THEN Result(turn, "ToolError: FILE_NOT_FOUND")
      ELSE IF ~merge_ok THEN Result(turn, "ToolError: MERGE_FAILED")
      ELSE Wrap(turn, write_file(turn, file_path, merged_code),
                "ToolError: DIFF_ERROR")

\* DeleteFileTool.execute
DeleteFileTool(turn, d, path) ==
  LET file_path == PathJoin(CWD, path)
  IN  IF ~exists(d, file_path) THEN Result(turn, "ToolError: FILE_NOT_FOUND")
      ELSE Wrap(turn, delete_file(turn, d, file_path), "ToolError: DELETE_ERROR")

\* RenameFileTool.execute
RenameFileTool(turn, d, source, destination) ==
  LET src_path == PathJoin(CWD, source)
      dst_path == PathJoin(CWD, destination)
  IN  IF ~exists(d, src_path) THEN Result(turn, "ToolError: SOURCE_NOT_FOUND")
      ELSE IF exists(d, dst_path) THEN Result(turn, "ToolError: DESTINATION_EXISTS")
      ELSE Wrap(turn, rename_file(turn, d, src_path, dst_path),
                "ToolError: RENAME_ERROR")

\* ToolExecutor.execute_tool for the tools that record file changes
execute_tool(turn, d, tool_name, params, merge_ok) ==
  LET v == validate_tool_params(tool_name, params)
  IN  IF v # "" THEN Result(turn, v)
      ELSE IF tool_name = "write-to-file"
        THEN WriteFileTool(turn, params["path"], params["content"])
      ELSE IF tool_name = "apply-diff"
        THEN ApplyDiffTool(turn, d, params["path"], merge_ok, V1)
      ELSE IF tool_name = "delete-file"
        THEN DeleteFileTool(turn, d, params["path"])
      ELSE IF tool_name = "rename-file"
        THEN RenameFileTool(turn, d, params["source"], params["destination"])
      ELSE Result(turn, "ToolError: UNKNOWN_TOOL")

(***************************************************************************)
(* commit_turn: applying the change log to disk.                           *)
(***************************************************************************)
\* the effect of one iteration of the "for change in changes" loop
ApplyChange(d, change) ==
  IF change.change_type = "write"
    THEN [d EXCEPT ![DiskKey(change.path)] = change.content]
  ELSE IF change.change_type = "delete"
    THEN IF exists(d, change.path)
         THEN [d EXCEPT ![DiskKey(change.path)] = Absent] ELSE d
  ELSE IF change.change_type = "rename"
    THEN IF exists(d, change.path)
         THEN [d EXCEPT ![DiskKey(change.content)] = d[DiskKey(change.path)],
                        ![DiskKey(change.path)] = Absent]
         ELSE d
  ELSE d

\* the iterations that reach the filesystem can raise (open, os.remove,
\* shutil.move); a missing target and add_dependency cannot
CanRaise(d, change) ==
  \/ change.change_type = "write"
  \/ change.change_type \in {"delete", "rename"} /\ exists(d, change.path)

RECURSIVE ApplyPrefix(_, _, _)
\* the disk after the first n changes of the log have been applied
ApplyPrefix(d, changes, n) ==
  IF n = 0 THEN d
  ELSE ApplyChange(ApplyPrefix(d, changes, n - 1), changes[n])

(***************************************************************************)
(* State.                                                                  *)
(***************************************************************************)
VARIABLES
  input,              \* parser: the whole model response being streamed
  pos,                \* parser: number of characters of input fed so far
  parser,             \* parser: the instance and the events it has yielded
  in_chunk,           \* parser: a call parser(chunk) is consuming its chunk
  whole,              \* parser: a second instance, given input as one chunk
  stream_done,        \* parser: parser(None) has been called
  path_universe,      \* the paths the callers pass (fixed by Init)
  disk,               \* workspace files: normalised absolute path -> content
  current_turn,       \* FileOperationManager._current_turn
  write_hooks,        \* FileOperationManager._write_hooks
  post_commit_hooks,  \* FileOperationManager._post_commit_hooks
  pc,                 \* where the running commit_turn is suspended
  hook_i,             \* index of the hook the sequential loop is at
  nb_pc,              \* progress of each run_hook task of asyncio.gather
  turn_copies,        \* commit_turn's turn_copies, by index of the non-blocking hook
  commit_log,         \* what the latest commit_turn has done, in order
  committed,          \* the turn the latest commit_turn was called on, if any
  commit_disk,        \* the workspace files when that commit_turn was called
  applied,            \* number of changes the latest commit applied to disk
  last_call,          \* the latest call made on the manager or a tool
  callers,            \* list store: the threads that call the store (fixed by Init)
  capacity,           \* list store: the length the list may grow to (fixed by Init)
  push_width,         \* list store: the number of values of one push (fixed by Init)
  store_data,         \* list store: the backend's list of the key, if any
  store_plain,        \* list store: the same pushes on a backend alone
  store_untriggered,  \* list store: no compaction has been triggered so far
  last_compaction_check, \* list store: last_compaction_check[key], if any
  compaction_lock,    \* list store: the thread holding _compaction_lock, or 0
  now,                \* list store: time.time(), in ticks
  th,                 \* list store: each calling thread's position and locals
  agent_on,           \* agent: the specification calls the agent (fixed by Init)
  task_status,        \* agent: state_manager.task.status
  consecutive_tool_failures,  \* agent: state_manager.tool counter
  consecutive_code_failures,  \* agent: state_manager.tool counter
  tool_results,       \* agent: state_manager.tool.tool_results
  depth,              \* agent: number of frames of _recursively_process_messages
  opc,                \* agent: position of the innermost frame
  emit_i,             \* agent: index of the result the emit loop is at
  to_stream,          \* agent: tool uses the response has still to stream
  tool_queue,         \* agent: the asyncio.Queue of the innermost frame
  cpc,                \* agent: position of the innermost frame's consumer
  running_tools,      \* agent: the consumer's running_tools, by tool_id
  done,               \* agent: the consumer's set of tasks to handle
  next_id,            \* agent: number of tool identifiers handed out
  yielded,            \* agent: events run() has yielded in the current step
  memory,             \* agent: messages added to memory in the current step
  resolved,           \* agent: TOOL_COMPLETED/TOOL_FAILED events per tool_id
  aborts,             \* agent: number of abort() calls so far
  history,            \* agent: per tool_id, the statuses of the Tool events run() has delivered
  sync_subscribers,   \* bus: EventBus._sync_subscribers
  async_subscribers,  \* bus: EventBus._async_subscribers
  subscribed,         \* bus: per event type, its subscribers in the order they subscribed
  pub,                \* bus: the running or latest publish call
  state_manager       \* agent: the fields of the StateManager not held above

parser_vars == <<input, pos, parser, in_chunk, whole, stream_done>>

fom_vars == <<path_universe, disk, current_turn, write_hooks, post_commit_hooks,
              pc, hook_i, nb_pc, turn_copies, commit_log, committed, commit_disk, applied,
              last_call>>

vars == <<input, pos, parser, in_chunk, whole, stream_done, path_universe, disk, current_turn,
          write_hooks, post_commit_hooks, pc, hook_i, nb_pc, turn_copies, commit_log,
          committed, commit_disk, applied, last_call,
          callers, capacity, push_width, store_data, store_plain, store_untriggered, last_compaction_check,
          compaction_lock, now, th, agent_on, task_status,
          consecutive_tool_failures, consecutive_code_failures, tool_results,
          depth, opc, emit_i, to_stream, tool_queue, cpc, running_tools, done,
          next_id, yielded, memory, resolved, aborts, history,
          sync_subscribers, async_subscribers, subscribed, pub, state_manager>>

store_vars == <<callers, capacity, push_width, store_data, store_plain, store_untriggered,
                last_compaction_check, compaction_lock, now, th>>

agent_vars == <<agent_on, task_status, consecutive_tool_failures,
                consecutive_code_failures, tool_results, depth, opc, emit_i,
                to_stream, tool_queue, cpc, running_tools, done, next_id,
                yielded, memory, resolved, aborts, history>>

bus_vars == <<sync_subscribers, async_subscribers, subscribed, pub>>

ext_vars == <<store_vars, agent_vars, bus_vars, state_manager>>

\* the number of consecutive failures that trips the circuit breaker
BREAKER_THRESHOLD == 4

Threads == 1..NumThreads

\* compact_target_ratio = 0.5 as a fraction
TARGET_RATIO_NUM == 1

TARGET_RATIO_DEN == 2

Idle == [phase |-> "idle", step |-> ""]

Call(op, error) == [op |-> op, error |-> error]

Hook(name, callback, blocking) ==
  [name |-> name, callback |-> callback, blocking |-> blocking]

ParserIdle ==
  /\ input = <<>>
  /\ pos = 0
  /\ parser = NewParser
  /\ in_chunk = FALSE
  /\ whole = NewParser
  /\ stream_done = FALSE

\* the state after FileOperationManager.__init__ and ToolExecutor.__init__
FomInit(paths) ==
  /\ path_universe = paths
  /\ disk = InitialDisk(paths)
  /\ current_turn = <<>>
  /\ write_hooks = <<>>
  /\ post_commit_hooks = <<>>
  /\ pc = Idle
  /\ hook_i = 0
  /\ nb_pc = EmptyMap
  /\ turn_copies = EmptyMap
  /\ commit_log = <<>>
  /\ committed = <<>>
  /\ commit_disk = disk
  /\ applied = 0
  /\ last_call = Call("__init__", "")

(***************************************************************************)
(* The parser's actions.                                                   *)
(***************************************************************************)
\* one iteration of the character loop of parser(chunk); the first character
\* of a chunk opens the call.  The instance "whole" is inside its single
\* call from the first character to the last.
FeedChar ==
  /\ ~stream_done
  /\ pos < Len(input)
  /\ parser' = ProcessChar(IF in_chunk THEN parser ELSE StartChunk(parser),
                           input[pos + 1])
  /\ whole' = ProcessChar(IF pos = 0 THEN StartChunk(whole) ELSE whole,
                          input[pos + 1])
  /\ pos' = pos + 1
  /\ in_chunk' = TRUE
  /\ UNCHANGED <<input, stream_done>>
  /\ UNCHANGED fom_vars
  /\ UNCHANGED ext_vars

\* the chunk ends here: parser(chunk) flushes its buffers and returns
ChunkBoundary ==
  /\ ~stream_done
  /\ in_chunk
  /\ parser' = EndChunk(parser)
  /\ whole' = IF pos = Len(input) THEN EndChunk(whole) ELSE whole
  /\ in_chunk' = FALSE
  /\ UNCHANGED <<input, pos, stream_done>>
  /\ UNCHANGED fom_vars
  /\ UNCHANGED ext_vars

\* parser(None) once the stream is exhausted, on both instances
FeedEndOfStream ==
  /\ ~stream_done
  /\ ~in_chunk
  /\ pos = Len(input)
  /\ parser' = FeedEnd(parser)
  /\ whole' = FeedEnd(whole)
  /\ stream_done' = TRUE
  /\ UNCHANGED <<input, pos, in_chunk>>
  /\ UNCHANGED fom_vars
  /\ UNCHANGED ext_vars

(***************************************************************************)
(* Calls on the manager outside a commit.  The orchestrator awaits the     *)
(* tool consumer before it commits, so no call is made while commit_turn   *)
(* is suspended.                                                           *)
(***************************************************************************)
RelPaths == { p \in path_universe : ~isabs(p) }

\* the record of the latest commit is dropped at the next call
ForgetCommit ==
  /\ commit_log' = <<>>
  /\ committed' = <<>>
  /\ commit_disk' = disk
  /\ applied' = 0
  /\ UNCHANGED <<pc, hook_i, nb_pc, turn_copies>>

\* the calls that discard the live turn, and the number of changes the
\* turn they are made on has recorded
Discards == {"discard_turn", "recursive_step"}

Recorded(turn) == IF turn = <<>> THEN 0 ELSE Len(turn[1].changes)

\* a call that returns or raises at once: op names it, r is its result
Returns(op, r) ==
  /\ pc = Idle
  /\ current_turn' = r.turn
  /\ last_call' = IF op \in Discards
                  THEN [op |-> op, error |-> r.error, dropped |-> Recorded(current_turn)]
                  ELSE Call(op, r.error)
  /\ ForgetCommit
  /\ UNCHANGED <<turn_copies, path_universe, disk, write_hooks, post_commit_hooks>>
  /\ UNCHANGED parser_vars
  /\ UNCHANGED ext_vars

\* the log of a turn is kept within MaxChanges entries
Room ==
  IF current_turn = <<>> THEN TRUE
  ELSE Len(current_turn[1].changes) < MaxChanges

BeginTurnCall ==
  \E turn_id \in 1 .. MaxTurnId :
    Returns("begin_turn", begin_turn(current_turn, turn_id))

DiscardTurnCall ==
  Returns("discard_turn", Result(discard_turn(current_turn), ""))

\* CoderAgent._recursively_process_messages, its first two statements
OrchestratorStep ==
  \E turn_id \in 1 .. MaxTurnId :
    Returns("recursive_step", begin_turn(discard_turn(current_turn), turn_id))

\* a write_file that also writes the file at once
WriteFileThrough ==
  /\ Room
  /\ pc = Idle
  /\ \E path \in RelPaths :
       LET r == write_file(current_turn, path, V1)
       IN  /\ current_turn' = r.turn
           /\ last_call' = Call("write_file", r.error)
           /\ disk' = IF r.error = "" /\ r.turn # <<>>
                      THEN ApplyChange(disk, r.turn[1].changes[Len(r.turn[1].changes)])
                      ELSE disk
  /\ ForgetCommit
  /\ UNCHANGED <<turn_copies, path_universe, write_hooks, post_commit_hooks>>
  /\ UNCHANGED parser_vars
  /\ UNCHANGED ext_vars

WriteFileCall ==
  /\ Room
  /\ \E path \in RelPaths :
       Returns("write_file", write_file(current_turn, path, V1))

DeleteFileCall ==
  /\ Room
  /\ \E path \in RelPaths :
       Returns("delete_file", delete_file(current_turn, disk, path))

RenameFileCall ==
  /\ Room
  /\ \E source \in RelPaths, destination \in RelPaths :
       Returns("rename_file", rename_file(current_turn, disk, source, destination))

AddDependencyCall ==
  /\ Room
  /\ Returns("add_dependency", add_dependency(current_turn, <<"d", "e", "p">>))

\* the tool names of the requests: the tools that record file changes and
\* a name that is no tool
RequestedTools ==
  { "write-to-file", "apply-diff", "delete-file", "rename-file", "no-such-tool" }

\* the parameter names a request for the tool may carry
ParamNames(tool_name) ==
  IF tool_name \in DOMAIN required_params
  THEN { required_params[tool_name][i] :
           i \in 1 .. Len(required_params[tool_name]) }
  ELSE { "path" }

\* the values of a parameter: a path or some text, or the empty string
ParamValues(name) ==
  IF name \in { "path", "source", "destination" }
  THEN path_universe \cup { <<>> }
  ELSE { V1, <<>> }

\* the params of the requests for a tool: each of its parameters is
\* missing, empty or has a value
RequestedParams(tool_name) ==
  UNION { { params \in [names -> path_universe \cup { <<>>, V1 }] :
              \A name \in names : params[name] \in ParamValues(name) } :
          names \in SUBSET ParamNames(tool_name) }

\* ToolExecutor.execute_tool with the name of a file tool or an unknown
\* name, and with params that pass or fail the validation
ToolCall ==
  /\ Room
  /\ \E tool_name \in RequestedTools :
       \E params \in RequestedParams(tool_name) : \E merge_ok \in BOOLEAN :
         Returns(tool_name,
                 execute_tool(current_turn, disk, tool_name, params, merge_ok))

\* FileOperationManager.add_write_hook, with or without a callback
AddWriteHook ==
  /\ pc = Idle
  /\ current_turn = <<>>
  /\ Len(write_hooks) < MaxWriteHooks
  /\ \E callback \in BOOLEAN :
       write_hooks' =
         Append(write_hooks, Hook(<<"w", Len(write_hooks) + 1>>, callback, TRUE))
  /\ last_call' = Call("add_write_hook", "")
  /\ ForgetCommit
  /\ UNCHANGED <<turn_copies, path_universe, disk, current_turn, post_commit_hooks>>
  /\ UNCHANGED parser_vars
  /\ UNCHANGED ext_vars

\* FileOperationManager.add_post_commit_hook
AddPostCommitHook ==
  /\ pc = Idle
  /\ current_turn = <<>>
  /\ Len(post_commit_hooks) < MaxPostHooks
  /\ \E callback \in BOOLEAN, blocking \in BOOLEAN :
       post_commit_hooks' =
         Append(post_commit_hooks,
                Hook(<<"p", Len(post_commit_hooks) + 1>>, callback, blocking))
  /\ last_call' = Call("add_post_commit_hook", "")
  /\ ForgetCommit
  /\ UNCHANGED <<turn_copies, path_universe, disk, current_turn, write_hooks>>
  /\ UNCHANGED parser_vars
  /\ UNCHANGED ext_vars

(***************************************************************************)
(* commit_turn, one action per stretch of code between two awaits.         *)
(* A hook function and a callback are awaited calls into foreign code:     *)
(* each either returns (ok) or raises.                                     *)
(***************************************************************************)
LogEntry(ev, phase, hook, status, ok) ==
  [ev |-> ev, phase |-> phase, hook |-> hook, status |-> status, ok |-> ok]

\* the status a context has for a function that returned (ok) or raised
StatusOf(ok) == IF ok THEN "success" ELSE "failed"

\* WriteTurn.set_hook_result on the live turn
set_hook_result(turn, hook_name, status, result) ==
  << [turn[1] EXCEPT !.hook_results =
        MapSet(@, hook_name, [status |-> status, result |-> result])] >>

RECURSIVE NextBlocking(_)
\* the next hook at or after index i that "if hook.blocking" lets through
NextBlocking(i) ==
  IF i > Len(post_commit_hooks) \/ post_commit_hooks[i].blocking THEN i
  ELSE NextBlocking(i + 1)

\* the hooks of the sequential loop of a phase, and the step to the next one
PhaseHooks(phase) == IF phase = "pre" THEN write_hooks ELSE post_commit_hooks

NextHook(phase, i) == IF phase = "pre" THEN i + 1 ELSE NextBlocking(i + 1)

\* commit_turn is called
CommitTurnCall ==
  /\ pc = Idle
  /\ last_call' = Call("commit_turn", "")
  /\ committed' = current_turn
  /\ commit_disk' = disk
  /\ commit_log' = <<>>
  /\ applied' = 0
  /\ nb_pc' = EmptyMap
  /\ IF current_turn = <<>>
     THEN UNCHANGED <<pc, hook_i>>
     ELSE /\ pc' = [phase |-> "pre", step |-> "func"]
          /\ hook_i' = 1
  /\ UNCHANGED <<turn_copies, path_universe, disk, current_turn, write_hooks, post_commit_hooks>>
  /\ UNCHANGED parser_vars
  /\ UNCHANGED ext_vars

\* "await hook.func(turn)" of a pre-commit or blocking post-commit hook,
\* then set_hook_result with the outcome
RunHookFunc ==
  /\ pc.phase \in {"pre", "post"}
  /\ pc.step = "func"
  /\ hook_i <= Len(PhaseHooks(pc.phase))
  /\ LET hook == PhaseHooks(pc.phase)[hook_i]
     IN  \E ok \in BOOLEAN :
           /\ current_turn' = set_hook_result(current_turn, hook.name,
                                              IF ok THEN "success" ELSE "failed",
                                              None)
           /\ commit_log' = Append(commit_log,
                                   LogEntry("func", pc.phase, hook.name, "", ok))
           /\ IF hook.callback
              THEN /\ pc' = [pc EXCEPT !.step = IF ok THEN "cb" ELSE "cb_exc"]
                   /\ UNCHANGED hook_i
              ELSE /\ hook_i' = NextHook(pc.phase, hook_i)
                   /\ UNCHANGED pc
  /\ UNCHANGED <<turn_copies, path_universe, disk, write_hooks, post_commit_hooks,
                 nb_pc, committed, commit_disk, applied, last_call>>
  /\ UNCHANGED parser_vars
  /\ UNCHANGED ext_vars

\* "await hook.callback(ctx)": in the try block (step cb, ctx SUCCESS) a
\* raise enters the except block, which records FAILED and awaits the
\* callback again (step cb_exc, ctx FAILED); a raise there leaves commit_turn
RunHookCallback ==
  /\ pc.phase \in {"pre", "post"}
  /\ pc.step \in {"cb", "cb_exc"}
  /\ LET hook == PhaseHooks(pc.phase)[hook_i]
         status == IF pc.step = "cb" THEN "success" ELSE "failed"
     IN  \E ok \in BOOLEAN :
           /\ commit_log' = Append(commit_log,
                                   LogEntry("callback", pc.phase, hook.name, status, ok))
           /\ IF ok
              THEN /\ pc' = [pc EXCEPT !.step = "func"]
                   /\ hook_i' = NextHook(pc.phase, hook_i)
                   /\ UNCHANGED current_turn
              ELSE IF pc.step = "cb"
              THEN /\ pc' = [pc EXCEPT !.step = "cb_exc"]
                   /\ current_turn' = set_hook_result(current_turn, hook.name, "failed", None)
                   /\ UNCHANGED hook_i
              ELSE /\ pc' = [phase |-> "finally", step |-> "raise"]
                   /\ UNCHANGED <<current_turn, hook_i>>
  /\ UNCHANGED <<turn_copies, path_universe, disk, write_hooks, post_commit_hooks,
                 nb_pc, committed, commit_disk, applied, last_call>>
  /\ UNCHANGED parser_vars
  /\ UNCHANGED ext_vars

\* a commit that takes every turn to have changes
has_changes_always(turn) == TRUE

\* "has_changes = len(self._current_turn.changes) > 0"
has_changes(turn) == Len(turn.changes) > 0

\* after the pre-commit loop: has_changes and the "for change in changes"
\* loop, which stops at the first change whose application raises
ApplyChanges ==
  /\ pc = [phase |-> "pre", step |-> "func"]
  /\ hook_i > Len(write_hooks)
  /\ LET changes == current_turn[1].changes
     IN  IF ~has_changes(current_turn[1])
         THEN /\ pc' = [phase |-> "finally", step |-> "return"]
              /\ UNCHANGED <<disk, applied, hook_i, commit_log>>
         ELSE \E k \in 1 .. (Len(changes) + 1) :
                /\ k <= Len(changes) =>
                     CanRaise(ApplyPrefix(disk, changes, k - 1), changes[k])
                /\ disk' = ApplyPrefix(disk, changes, k - 1)
                /\ applied' = k - 1
                /\ commit_log' = Append(commit_log,
                                        LogEntry("apply", "apply", <<"-", k - 1>>, "",
                                                 k > Len(changes)))
                /\ IF k <= Len(changes)
                   THEN /\ pc' = [phase |-> "finally", step |-> "raise"]
                        /\ UNCHANGED hook_i
                   ELSE /\ pc' = [phase |-> "post", step |-> "func"]
                        /\ hook_i' = NextBlocking(1)
  /\ UNCHANGED <<turn_copies, path_universe, current_turn, write_hooks, post_commit_hooks,
                 nb_pc, committed, commit_disk, last_call>>
  /\ UNCHANGED parser_vars
  /\ UNCHANGED ext_vars

\* the object of the live turn, self._current_turn
LIVE == 0

\* a turn_copies that holds the live turn itself for every hook
same_object(turn, i) == [obj |-> LIVE, turn |-> turn]

\* copy.deepcopy(self._current_turn) for the i-th hook: a new object with
\* the value the turn has now
deepcopy(turn, i) == [obj |-> i, turn |-> turn]

\* after the blocking loop: non_blocking_hooks, turn_copies, and the
\* run_hook tasks handed to asyncio.gather
StartNonBlocking ==
  /\ pc = [phase |-> "post", step |-> "func"]
  /\ hook_i > Len(post_commit_hooks)
  /\ LET non_blocking_hooks ==
           { i \in 1 .. Len(post_commit_hooks) : ~post_commit_hooks[i].blocking }
     IN  IF non_blocking_hooks = {}
         THEN /\ pc' = [phase |-> "finally", step |-> "return"]
              /\ UNCHANGED <<nb_pc, turn_copies>>
         ELSE /\ pc' = [phase |-> "nb", step |-> "gather"]
              /\ nb_pc' = [i \in non_blocking_hooks |-> "func"]
              /\ turn_copies' =
                   [i \in non_blocking_hooks |-> deepcopy(current_turn[1], i)]
  /\ UNCHANGED <<path_universe, disk, current_turn, write_hooks, post_commit_hooks,
                 hook_i, commit_log, committed, commit_disk, applied, last_call>>
  /\ UNCHANGED parser_vars
  /\ UNCHANGED ext_vars

\* run_hook: "await hook_obj.func(turn_copy)"
RunNonBlockingFunc ==
  /\ pc.phase = "nb"
  /\ \E i \in DOMAIN nb_pc :
       /\ nb_pc[i] = "func"
       /\ \E ok \in BOOLEAN :
            /\ commit_log' = Append(commit_log,
                 LogEntry("func", "nb", post_commit_hooks[i].name, "", ok))
            /\ nb_pc' = [nb_pc EXCEPT ![i] =
                 IF ~post_commit_hooks[i].callback THEN "done"
                 ELSE IF ok THEN "cb" ELSE "cb_exc"]
  /\ UNCHANGED <<turn_copies, path_universe, disk, current_turn, write_hooks, post_commit_hooks,
                 pc, hook_i, committed, commit_disk, applied, last_call>>
  /\ UNCHANGED parser_vars
  /\ UNCHANGED ext_vars

\* what the function of a non-blocking hook may do to the turn it was given:
\* empty its change list, or record a hook result of its own in it
mutate(turn, what, hook_name) ==
  IF what = "changes" THEN [turn EXCEPT !.changes = <<>>]
  ELSE set_hook_result(<<turn>>, hook_name, "success", None)[1]

\* the function of a non-blocking hook, while it runs, changes the turn
\* object it was given; every name bound to that object sees the change
MutateCopy ==
  /\ pc.phase = "nb"
  /\ \E i \in DOMAIN nb_pc, what \in {"changes", "hook_results"} :
       LET given == turn_copies[i]
           new == mutate(given.turn, what, post_commit_hooks[i].name)
       IN  /\ nb_pc[i] = "func"
           /\ new # given.turn
           /\ turn_copies' =
                [j \in DOMAIN turn_copies |->
                   IF turn_copies[j].obj = given.obj
                   THEN [turn_copies[j] EXCEPT !.turn = new]
                   ELSE turn_copies[j]]
           /\ current_turn' = IF given.obj = LIVE THEN <<new>> ELSE current_turn
  /\ UNCHANGED <<path_universe, disk, write_hooks, post_commit_hooks, pc, hook_i,
                 nb_pc, commit_log, committed, commit_disk, applied, last_call>>
  /\ UNCHANGED parser_vars
  /\ UNCHANGED ext_vars

\* run_hook: "await hook_obj.callback(ctx)"; in the except block the
\* callback's own exception is caught and logged
RunNonBlockingCallback ==
  /\ pc.phase = "nb"
  /\ \E i \in DOMAIN nb_pc :
       /\ nb_pc[i] \in {"cb", "cb_exc"}
       /\ \E ok \in BOOLEAN :
            /\ commit_log' = Append(commit_log,
                 LogEntry("callback", "nb", post_commit_hooks[i].name,
                          IF nb_pc[i] = "cb" THEN "success" ELSE "failed", ok))
            /\ nb_pc' = [nb_pc EXCEPT ![i] =
                 IF nb_pc[i] = "cb" /\ ~ok THEN "cb_exc" ELSE "done"]
  /\ UNCHANGED <<turn_copies, path_universe, disk, current_turn, write_hooks, post_commit_hooks,
                 pc, hook_i, committed, commit_disk, applied, last_call>>
  /\ UNCHANGED parser_vars
  /\ UNCHANGED ext_vars

\* asyncio.gather returns once every run_hook task has finished
GatherDone ==
  /\ pc.phase = "nb"
  /\ \A i \in DOMAIN nb_pc : nb_pc[i] = "done"
  /\ pc' = [phase |-> "finally", step |-> "return"]
  /\ UNCHANGED <<turn_copies, path_universe, disk, current_turn, write_hooks, post_commit_hooks,
                 hook_i, nb_pc, commit_log, committed, commit_disk, applied, last_call>>
  /\ UNCHANGED parser_vars
  /\ UNCHANGED ext_vars

\* a commit_turn that clears the turn on return but not when it raises
CommitFinallyOnReturn ==
  /\ pc.phase = "finally"
  /\ current_turn' = IF pc.step = "raise" THEN current_turn ELSE <<>>
  /\ pc' = Idle
  /\ hook_i' = 0
  /\ nb_pc' = EmptyMap
  /\ turn_copies' = EmptyMap
  /\ last_call' = Call("commit_turn",
                       IF pc.step = "raise" THEN "Exception" ELSE "")
  /\ UNCHANGED <<path_universe, disk, write_hooks, post_commit_hooks,
                 commit_log, committed, commit_disk, applied>>
  /\ UNCHANGED parser_vars
  /\ UNCHANGED ext_vars

\* "finally: self._current_turn = None", then commit_turn returns or raises
CommitFinally ==
  /\ pc.phase = "finally"
  /\ current_turn' = <<>>
  /\ pc' = Idle
  /\ hook_i' = 0
  /\ nb_pc' = EmptyMap
  /\ turn_copies' = EmptyMap
  /\ last_call' = Call("commit_turn",
                       IF pc.step = "raise" THEN "Exception" ELSE "")
  /\ UNCHANGED <<path_universe, disk, write_hooks, post_commit_hooks,
                 commit_log, committed, commit_disk, applied>>
  /\ UNCHANGED parser_vars
  /\ UNCHANGED ext_vars

(***************************************************************************)
(* The hooks CoderAgent registers (HookManager) and their callbacks, run   *)
(* by commit_turn.                                                         *)
(***************************************************************************)
\* utils.code_checks.perform_code_checks: (has_errors, check_results)
perform_code_checks == <<FALSE, <<>>>>

\* HookManager._code_check_hook: (passed, check_results)
code_check_hook(turn) == <<~perform_code_checks[1], perform_code_checks[2]>>

\* WriteTurn.get_hook_result: the context recorded for the hook, or None
get_hook_result(turn, hook_name) ==
  IF hook_name \in DOMAIN turn.hook_results THEN turn.hook_results[hook_name]
  ELSE None

\* the tests the snapshot and backup hooks make on the code_check result of
\* the turn they are given before they go on
code_checks_passed(turn) ==
  LET code_check_ctx == get_hook_result(turn, "code_check")
  IN  /\ code_check_ctx # None
      /\ code_check_ctx.status = "success"
      /\ code_check_ctx.result # None
      /\ code_check_ctx.result[1]

\* a snapshot hook that does not look at the code_check result
git_snapshot_hook_unchecked(turn) == turn.changes # <<>>

\* HookManager._git_snapshot_hook: whether it goes on to create_snapshot
git_snapshot_hook(turn) == turn.changes # <<>> /\ code_checks_passed(turn)

\* HookManager._project_backup_hook: whether it goes on to backup_project
project_backup_hook(turn) == code_checks_passed(turn)

\* HookManager.register_all_hooks as CoderAgent.__init__ calls it
RegisterAllHooks ==
  /\ pc = Idle
  /\ current_turn = <<>>
  /\ post_commit_hooks = <<>>
  /\ post_commit_hooks' = << Hook("code_check", TRUE, TRUE),
                             Hook("git_snapshot", TRUE, FALSE),
                             Hook("project_backup", TRUE, FALSE) >>
  /\ last_call' = Call("register_all_hooks", "")
  /\ ForgetCommit
  /\ UNCHANGED <<path_universe, disk, current_turn, write_hooks>>
  /\ UNCHANGED parser_vars
  /\ UNCHANGED ext_vars

\* the blocking loop of commit_turn at the code_check hook:
\* "await hook.func(turn)" and set_hook_result(SUCCESS, result)
CodeCheckHook ==
  /\ pc = [phase |-> "post", step |-> "func"]
  /\ hook_i <= Len(post_commit_hooks)
  /\ post_commit_hooks[hook_i].name = "code_check"
  /\ current_turn' = set_hook_result(current_turn, "code_check", "success",
                                     code_check_hook(current_turn[1]))
  /\ commit_log' = Append(commit_log,
                          LogEntry("func", "post", "code_check", "", TRUE))
  /\ pc' = [pc EXCEPT !.step = "cb"]
  /\ UNCHANGED <<path_universe, disk, write_hooks, post_commit_hooks, hook_i,
                 nb_pc, turn_copies, committed, commit_disk, applied, last_call>>
  /\ UNCHANGED parser_vars
  /\ UNCHANGED ext_vars

\* CoderAgent._on_code_check_complete awaited by the blocking loop: it
\* counts a check that failed or found errors, resets the counter for one
\* that passed, and adds the check results, if any, to the memory; an
\* exception of its awaits on the SUCCESS context enters the except clause
\* of the loop, which records FAILED and awaits the callback again
OnCodeCheckComplete ==
  /\ pc.phase = "post"
  /\ pc.step \in {"cb", "cb_exc"}
  /\ post_commit_hooks[hook_i].name = "code_check"
  /\ LET status == StatusOf(pc.step = "cb")
         result == current_turn[1].hook_results["code_check"].result
         counted == status # "success" \/ result = None \/ ~result[1]
         stored == ~(status # "success" \/ result = None) /\ result[2] # <<>>
     IN  /\ consecutive_code_failures' =
              IF counted THEN consecutive_code_failures + 1 ELSE 0
         /\ \E ok \in IF stored THEN BOOLEAN ELSE {TRUE} :
              /\ commit_log' = Append(commit_log,
                   LogEntry("callback", "post", "code_check", status, ok))
              /\ memory' = IF stored /\ ok THEN Append(memory, "check results")
                           ELSE memory
              /\ IF ok
                 THEN /\ pc' = [pc EXCEPT !.step = "func"]
                      /\ hook_i' = NextBlocking(hook_i + 1)
                      /\ UNCHANGED current_turn
                 ELSE /\ pc' = [pc EXCEPT !.step = "cb_exc"]
                      /\ current_turn' =
                           set_hook_result(current_turn, "code_check", "failed", None)
                      /\ UNCHANGED hook_i
  /\ UNCHANGED <<path_universe, disk, write_hooks, post_commit_hooks,
                 nb_pc, turn_copies, committed, commit_disk, applied, last_call>>
  /\ UNCHANGED <<parser_vars, store_vars, bus_vars, state_manager>>
  /\ UNCHANGED <<agent_on, task_status, consecutive_tool_failures, tool_results,
                 depth, opc, emit_i, to_stream, tool_queue, cpc, running_tools,
                 done, next_id, yielded, resolved, aborts, history>>

\* run_hook awaiting a hook of the HookManager on its copy of the turn: the
\* hook returns None when its tests tell it to skip; otherwise it awaits
\* create_snapshot or backup_project, which returns or raises
BackgroundHook(hook_name, goes_on(_)) ==
  /\ \E i \in DOMAIN nb_pc :
       /\ nb_pc[i] = "func"
       /\ post_commit_hooks[i].name = hook_name
       /\ \E ok \in IF goes_on(turn_copies[i].turn) THEN BOOLEAN ELSE {TRUE} :
            /\ commit_log' = commit_log \o
                 (IF goes_on(turn_copies[i].turn)
                  THEN << LogEntry("performed", "nb", hook_name, "", ok) >>
                  ELSE << >>) \o
                 << LogEntry("func", "nb", hook_name, "", ok) >>
            /\ nb_pc' = [nb_pc EXCEPT ![i] = IF ok THEN "cb" ELSE "cb_exc"]
  /\ UNCHANGED <<path_universe, disk, current_turn, write_hooks, post_commit_hooks,
                 pc, hook_i, turn_copies, committed, commit_disk, applied, last_call>>
  /\ UNCHANGED parser_vars
  /\ UNCHANGED ext_vars

\* run_hook awaiting HookManager._git_snapshot_hook
GitSnapshotHook ==
  /\ pc.phase = "nb"
  /\ BackgroundHook("git_snapshot", git_snapshot_hook)

\* run_hook awaiting HookManager._project_backup_hook
ProjectBackupHook ==
  /\ pc.phase = "nb"
  /\ BackgroundHook("project_backup", project_backup_hook)

\* run_hook awaiting _on_git_snapshot_complete or
\* _on_project_backup_complete: on a context that is not SUCCESS the
\* callback publishes HOOK_FAILED, inside a try that swallows any exception
\* of the publish, and returns
OnBackgroundHookComplete ==
  /\ pc.phase = "nb"
  /\ \E i \in DOMAIN nb_pc :
       /\ nb_pc[i] \in {"cb", "cb_exc"}
       /\ post_commit_hooks[i].name \in {"git_snapshot", "project_backup"}
       /\ commit_log' = commit_log \o
            (IF nb_pc[i] = "cb_exc"
             THEN << LogEntry("publish", "nb", post_commit_hooks[i].name,
                              "HOOK_FAILED", TRUE) >>
             ELSE << >>) \o
            << LogEntry("callback", "nb", post_commit_hooks[i].name,
                        StatusOf(nb_pc[i] = "cb"), TRUE) >>
       /\ nb_pc' = [nb_pc EXCEPT ![i] = "done"]
  /\ UNCHANGED <<path_universe, disk, current_turn, write_hooks, post_commit_hooks,
                 pc, hook_i, turn_copies, committed, commit_disk, applied, last_call>>
  /\ UNCHANGED parser_vars
  /\ UNCHANGED ext_vars

(***************************************************************************)
(* Specifications.                                                         *)
(***************************************************************************)
\* the parser on one stream, cut into chunks in every way
(***************************************************************************)
(* TokenBasedCompactingListStore over an in-memory backend                 *)
(* (storage/list_store).  One key is modelled.  A message is a record of   *)
(* what the store looks at: its role, whether its text contains one of the *)
(* primable tags, and the number of tokens the token counter gives it.     *)
(***************************************************************************)
Message(role, primable, tokens) ==
  [role |-> role, primable |-> primable, tokens |-> tokens]

U_MSG == Message("user", FALSE, 1)

P_MSG == Message("user", TRUE, 1)

S_MSG == Message("system", FALSE, 2)

Messages == { U_MSG, P_MSG, S_MSG }

\* the argument tuples of one rpush or lpush call
PushValues(width) ==
  UNION { [1..n -> Messages] : n \in 1..width }

RECURSIVE get_token_count(_)
\* _get_token_count: the token counter applied to a list of messages
get_token_count(messages) ==
  IF messages = <<>> THEN 0
  ELSE Head(messages).tokens + get_token_count(Tail(messages))

\* _count_message_tokens: the token counter applied to a one-message list
count_message_tokens(message) == get_token_count(<<message>>)

\* BaseListStore.lrange(key) with the default bounds: a copy of the list,
\* the empty list for a key that is not stored.  The stored list of the key
\* is an optional value: None when the key is not in data.
backend_lrange(data) == IF data = None THEN <<>> ELSE data[1]

RECURSIVE reversed(_)
reversed(s) == IF s = <<>> THEN <<>> ELSE Append(reversed(Tail(s)), Head(s))

\* BaseListStore.rpush: append the values, create the key when missing
backend_rpush(data, values) == << backend_lrange(data) \o values >>

\* BaseListStore.lpush: a new key gets the reversed values, an existing
\* list gets each value inserted at position 0 in turn
backend_lpush(data, values) == << reversed(values) \o backend_lrange(data) >>

\* BaseListStore.delete: the key is removed
backend_delete(data) == None

\* the length the backend's push returns
backend_len(data) == Len(backend_lrange(data))

\* the throttle of _should_compact: a check of the same key less than one
\* second after the previous one
throttled(t, last_check) ==
  /\ last_check # None
  /\ t - last_check[1] < 1 * TicksPerSecond

\* a check that finds the list over the threshold one token early
over_threshold_early(data) ==
  LET messages == backend_lrange(data)
  IN  /\ messages # <<>>
      /\ get_token_count(messages) >= compact_threshold_tokens - 1

\* _should_compact after the throttle: the messages are read and counted,
\* and the count is compared with the threshold
over_threshold(data) ==
  LET messages == backend_lrange(data)
  IN  /\ messages # <<>>
      /\ get_token_count(messages) >= compact_threshold_tokens

\* _remove_primable_messages
remove_primable_messages(messages) ==
  SelectSeq(messages, LAMBDA msg : ~msg.primable)

\* int(original_token_count * compact_target_ratio)
target_of(original_token_count) ==
  (original_token_count * TARGET_RATIO_NUM) \div TARGET_RATIO_DEN

RECURSIVE remove_newest(_, _, _, _)
\* a loop that pops the last message instead of messages[i]
remove_newest(messages, i, token_count, target) ==
  IF i <= Len(messages) /\ token_count > target
  THEN remove_newest(SubSeq(messages, 1, Len(messages) - 1), i,
                     token_count - count_message_tokens(messages[Len(messages)]),
                     target)
  ELSE messages

RECURSIVE remove_oldest(_, _, _, _)
\* the while loop of _perform_standard_compaction: pop messages[i] until
\* the running count is at or under the target or no message is left
remove_oldest(messages, i, token_count, target) ==
  IF i <= Len(messages) /\ token_count > target
  THEN remove_oldest(SubSeq(messages, 1, i - 1)
                       \o SubSeq(messages, i + 1, Len(messages)),
                     i, token_count - count_message_tokens(messages[i]),
                     target)
  ELSE messages

\* _perform_standard_compaction up to its writes: [write |-> whether the
\* stored list is replaced, messages |-> the list that replaces it]
standard_compaction(original) ==
  LET original_token_count == get_token_count(original)
      without_primable == remove_primable_messages(original)
      token_count == get_token_count(without_primable)
      target_token_count == target_of(original_token_count)
      start_index == IF /\ without_primable # <<>>
                        /\ without_primable[1].role = "system"
                     THEN 2 ELSE 1
  IN  IF original = <<>>
      THEN [write |-> FALSE, messages |-> <<>>]
      ELSE IF original_token_count < compact_threshold_tokens
      THEN [write |-> FALSE, messages |-> original]
      ELSE IF token_count <= target_token_count
      THEN [write |-> TRUE, messages |-> without_primable]
      ELSE [write |-> TRUE,
            messages |-> remove_oldest(without_primable, start_index,
                                       token_count, target_token_count)]

\* a thread that is not inside a call of the store
ThreadIdle ==
  [pc |-> "idle", op |-> "", result |-> 0, expect |-> 0, current_time |-> 0,
   original |-> <<>>, messages |-> <<>>, wrote |-> FALSE, outcome |-> ""]

StoreInit(threads, room, width) ==
  /\ callers = threads
  /\ capacity = room
  /\ push_width = width
  /\ store_data = None
  /\ store_plain = None
  /\ store_untriggered = TRUE
  /\ last_compaction_check = None
  /\ compaction_lock = 0
  /\ now = 0
  /\ th = [t \in Threads |-> ThreadIdle]

\* the positions of a thread between acquiring and releasing the lock
InCompaction == { "read", "delete", "rpush", "release" }

\* rpush / lpush, first statement: result = self.backend.rpush(key, *values)
PushCall(t) ==
  /\ t \in callers
  /\ th[t].pc = "idle"
  /\ \E op \in { "rpush", "lpush" }, values \in PushValues(push_width) :
       LET push(d) == IF op = "rpush" THEN backend_rpush(d, values)
                      ELSE backend_lpush(d, values)
       IN  /\ backend_len(store_data) + Len(values) <= capacity
           /\ store_data' = push(store_data)
           /\ store_plain' = IF store_untriggered THEN push(store_plain)
                             ELSE store_plain
           /\ th' = [th EXCEPT ![t] = [ThreadIdle EXCEPT
                       !.pc = "should_compact", !.op = op,
                       !.result = backend_len(push(store_data)),
                       !.expect = backend_len(store_data) + Len(values)]]
  /\ UNCHANGED <<store_untriggered, last_compaction_check, compaction_lock,
                 now>>
  /\ UNCHANGED <<callers, capacity, push_width, parser_vars, fom_vars, bus_vars, state_manager,
                 agent_vars>>

\* rpush / lpush, second statement: if self._should_compact(key), up to
\* the throttle: the clock is read and compared with the last check of the
\* key.  Another thread may run between this test and the assignment that
\* follows it.
ShouldCompact(t) ==
  /\ th[t].pc = "should_compact"
  /\ th' = [th EXCEPT ![t].pc =
              IF throttled(now, last_compaction_check) THEN "return"
              ELSE "check",
                      ![t].current_time =
              IF throttled(now, last_compaction_check) THEN 0 ELSE now]
  /\ UNCHANGED <<store_data, store_plain, store_untriggered,
                 last_compaction_check, compaction_lock, now>>
  /\ UNCHANGED <<callers, capacity, push_width, parser_vars, fom_vars, bus_vars, state_manager,
                 agent_vars>>

\* _should_compact after the throttle: the time of the check is recorded,
\* the messages are read and counted
CheckTokens(t) ==
  /\ th[t].pc = "check"
  /\ last_compaction_check' = <<th[t].current_time>>
  /\ th' = [th EXCEPT ![t].pc =
              IF over_threshold(store_data) THEN "acquire" ELSE "return",
                      ![t].current_time = 0]
  /\ store_untriggered' =
       /\ store_untriggered
       /\ get_token_count(backend_lrange(store_data))
            < compact_threshold_tokens
  /\ store_plain' = IF store_untriggered' THEN store_plain ELSE None
  /\ UNCHANGED <<store_data, compaction_lock, now>>
  /\ UNCHANGED <<callers, capacity, push_width, parser_vars, fom_vars, bus_vars, state_manager,
                 agent_vars>>

\* perform_compaction called directly (MessageManager.compact_memory)
CompactCall(t) ==
  /\ t \in callers
  /\ th[t].pc = "idle"
  /\ th' = [th EXCEPT ![t] = [ThreadIdle EXCEPT
              !.pc = "acquire", !.op = "perform_compaction"]]
  /\ store_untriggered' = FALSE
  /\ store_plain' = None
  /\ UNCHANGED <<store_data, last_compaction_check, compaction_lock, now>>
  /\ UNCHANGED <<callers, capacity, push_width, parser_vars, fom_vars, bus_vars, state_manager,
                 agent_vars>>

\* self._compaction_lock.acquire(timeout=...) succeeds
AcquireLock(t) ==
  /\ th[t].pc = "acquire"
  /\ compaction_lock = 0
  /\ compaction_lock' = t
  /\ th' = [th EXCEPT ![t].pc = "read"]
  /\ UNCHANGED <<store_data, store_plain, store_untriggered,
                 last_compaction_check, now>>
  /\ UNCHANGED <<callers, capacity, push_width, parser_vars, fom_vars, bus_vars, state_manager,
                 agent_vars>>

\* the acquire times out while another thread holds the lock:
\* perform_compaction returns (0, 0, 0)
LockTimeout(t) ==
  /\ th[t].pc = "acquire"
  /\ compaction_lock # 0
  /\ th' = [th EXCEPT ![t].pc = "return", ![t].outcome = "skipped"]
  /\ UNCHANGED <<store_data, store_plain, store_untriggered,
                 last_compaction_check, compaction_lock, now>>
  /\ UNCHANGED <<callers, capacity, push_width, parser_vars, fom_vars, bus_vars, state_manager,
                 agent_vars>>

\* _perform_standard_compaction from messages = self.backend.lrange(key) to
\* the first write; the token counter is a library call that may raise
CompactRead(t) ==
  /\ th[t].pc = "read"
  /\ \E raises \in BOOLEAN :
       LET original == backend_lrange(store_data)
           c == standard_compaction(original)
       IN  th' = [th EXCEPT ![t] =
                   IF raises /\ original # <<>>
                   THEN [@ EXCEPT !.pc = "release", !.outcome = "raised"]
                   ELSE [@ EXCEPT !.pc = IF c.write THEN "delete"
                                         ELSE "release",
                                  !.original = original,
                                  !.messages = c.messages,
                                  !.wrote = c.write]]
  /\ UNCHANGED <<store_data, store_plain, store_untriggered,
                 last_compaction_check, compaction_lock, now>>
  /\ UNCHANGED <<callers, capacity, push_width, parser_vars, fom_vars, bus_vars, state_manager,
                 agent_vars>>

\* self.backend.delete(key)
CompactDelete(t) ==
  /\ th[t].pc = "delete"
  /\ store_data' = backend_delete(store_data)
  /\ th' = [th EXCEPT ![t].pc =
              IF th[t].messages # <<>> THEN "rpush" ELSE "release"]
  /\ UNCHANGED <<store_plain, store_untriggered, last_compaction_check,
                 compaction_lock, now>>
  /\ UNCHANGED <<callers, capacity, push_width, parser_vars, fom_vars, bus_vars, state_manager,
                 agent_vars>>

\* self.backend.rpush(key, *messages)
CompactRpush(t) ==
  /\ th[t].pc = "rpush"
  /\ store_data' = backend_rpush(store_data, th[t].messages)
  /\ th' = [th EXCEPT ![t].pc = "release"]
  /\ UNCHANGED <<store_plain, store_untriggered, last_compaction_check,
                 compaction_lock, now>>
  /\ UNCHANGED <<callers, capacity, push_width, parser_vars, fom_vars, bus_vars, state_manager,
                 agent_vars>>

\* a release that only happens when the compaction returned normally
ReleaseOnReturn(t) ==
  /\ th[t].pc = "release"
  /\ compaction_lock' = IF th[t].outcome = "raised" THEN compaction_lock
                        ELSE 0
  /\ th' = [th EXCEPT ![t].pc = "return", ![t].original = <<>>,
                      ![t].messages = <<>>, ![t].wrote = FALSE]
  /\ UNCHANGED <<store_data, store_plain, store_untriggered,
                 last_compaction_check, now>>
  /\ UNCHANGED <<callers, capacity, push_width, parser_vars, fom_vars, bus_vars, state_manager,
                 agent_vars>>

\* finally: self._compaction_lock.release()
ReleaseLock(t) ==
  /\ th[t].pc = "release"
  /\ compaction_lock' = 0
  /\ th' = [th EXCEPT ![t].pc = "return", ![t].original = <<>>,
                      ![t].messages = <<>>, ![t].wrote = FALSE]
  /\ UNCHANGED <<store_data, store_plain, store_untriggered,
                 last_compaction_check, now>>
  /\ UNCHANGED <<callers, capacity, push_width, parser_vars, fom_vars, bus_vars, state_manager,
                 agent_vars>>

\* the call returns to its caller (return result), or its exception leaves
\* it
ReturnCall(t) ==
  /\ th[t].pc = "return"
  /\ th' = [th EXCEPT ![t] = ThreadIdle]
  /\ UNCHANGED <<store_data, store_plain, store_untriggered,
                 last_compaction_check, compaction_lock, now>>
  /\ UNCHANGED <<callers, capacity, push_width, parser_vars, fom_vars, bus_vars, state_manager,
                 agent_vars>>

\* time.time() advances
Tick ==
  /\ now < MaxTime
  /\ now' = now + 1
  /\ UNCHANGED <<store_data, store_plain, store_untriggered,
                 last_compaction_check, compaction_lock, th>>
  /\ UNCHANGED <<callers, capacity, push_width, parser_vars, fom_vars, bus_vars, state_manager,
                 agent_vars>>

(***************************************************************************)
(* CoderAgent (agents/coder/agent) with its StateManager: run, abort, the  *)
(* recursive processing step and the tool consumer.  The agent runs on one *)
(* asyncio loop: an action is the code between two suspension points (an   *)
(* await or a yield), and abort() may be called at any suspension point.   *)
(* Only the innermost frame of _recursively_process_messages runs; every   *)
(* outer frame is suspended in the loop of lines 457-460, so the frames    *)
(* are a depth and the innermost frame's position.                         *)
(***************************************************************************)
FOLLOWUP == "ask-followup-question"

WRITE_FILE == "write-to-file"

ToolNames == { FOLLOWUP, WRITE_FILE }

Request(name, tool_id) == [name |-> name, tool_id |-> tool_id]

\* the None that ends the requests of a step
SENTINEL == Request("", 0)

ToolResult(tool, tool_id, status) ==
  [tool |-> tool, tool_id |-> tool_id, status |-> status]

AgentText(text) == [type |-> "text", text |-> text, tool_id |-> 0]

AgentTool(tool_id, status) ==
  [type |-> "tool", text |-> status, tool_id |-> tool_id]

TERMINAL == { "completed", "failed", "aborted", "timeout" }

\* the agent after __init__; on tells whether the specification calls it
AgentInit(on) ==
  /\ agent_on = on
  /\ task_status = "idle"
  /\ consecutive_tool_failures = 0
  /\ consecutive_code_failures = 0
  /\ tool_results = <<>>
  /\ depth = 0
  /\ opc = "idle"
  /\ emit_i = 0
  /\ to_stream = <<>>
  /\ tool_queue = <<>>
  /\ cpc = "none"
  /\ running_tools = EmptyMap
  /\ done = {}
  /\ next_id = 0
  /\ yielded = <<>>
  /\ memory = <<>>
  /\ resolved = [i \in 1 .. MaxTools |-> 0]
  /\ aborts = 0
  /\ history = [i \in 1 .. MaxTools |-> <<>>]

\* the consumer task of a frame that is cancelled before it ended
cancel_consumer(c) == IF c \in { "none", "done", "raised" } THEN c ELSE "cancelled"

\* ToolState.add_success / add_failure, reached from _handle_tool_result
\* through the event bus: [failures |-> the counter, results |-> the list]
add_result(failures, results, name, tool_id, state) ==
  IF state = "ok"
  THEN [failures |-> 0,
        results |-> Append(results, ToolResult(name, tool_id, "success"))]
  ELSE [failures |-> failures + 1,
        results |-> Append(results, ToolResult(name, tool_id, "error"))]

\* a return of the innermost frame: the caller, if any, goes on at line 463
Return(d) == [depth |-> d - 1,
              opc |-> IF d - 1 = 0 THEN "done" ELSE "after_recursion"]

\* an event handed to run(): run stops iterating when the task is aborted,
\* which leaves the generator suspended at its yield for good
Forwarded == task_status # "aborted"

\* run(): reset_for_new_task, then the first step is entered
Run ==
  /\ agent_on
  /\ opc \in { "idle", "done", "abandoned", "raised" }
  /\ task_status' = "running"
  /\ consecutive_tool_failures' = 0
  /\ consecutive_code_failures' = 0
  /\ tool_results' = <<>>
  /\ depth' = 1
  /\ opc' = "start"
  /\ emit_i' = 0
  /\ to_stream' = <<>>
  /\ tool_queue' = <<>>
  /\ cpc' = "none"
  /\ running_tools' = EmptyMap
  /\ done' = {}
  /\ next_id' = 0
  /\ yielded' = <<>>
  /\ memory' = <<>>
  /\ resolved' = [i \in 1 .. MaxTools |-> 0]
  /\ history' = [i \in 1 .. MaxTools |->
                   IF parser.st.in_tool_block /\ i = parser.st.current_tool_id
                   THEN history[i] ELSE <<>>]
  /\ UNCHANGED <<agent_on, aborts>>
  /\ UNCHANGED <<parser_vars, fom_vars, bus_vars, state_manager, store_vars>>

\* abort(), called from outside the running task
Abort ==
  /\ agent_on
  /\ aborts < MaxAborts
  /\ aborts' = aborts + 1
  /\ task_status' = "aborted"
  /\ UNCHANGED <<consecutive_tool_failures, consecutive_code_failures,
                 tool_results, depth, opc, emit_i, to_stream, tool_queue, cpc,
                 running_tools, done, next_id, yielded, memory, resolved,
                 agent_on>>
  /\ UNCHANGED <<parser_vars, fom_vars, bus_vars, state_manager, store_vars>>
  /\ UNCHANGED history

\* a circuit breaker that only looks at the code check failures
breaker_tripped_checks_only(tool_failures, code_failures) ==
  code_failures >= BREAKER_THRESHOLD

\* whether the circuit breaker of lines 326-329 is tripped
breaker_tripped(tool_failures, code_failures) ==
  \/ tool_failures >= BREAKER_THRESHOLD
  \/ code_failures >= BREAKER_THRESHOLD

\* _recursively_process_messages from its entry to its first suspension:
\* the breaker's yield, or the model call with the consumer task created
StepStart ==
  /\ opc = "start"
  /\ IF breaker_tripped(consecutive_tool_failures, consecutive_code_failures)
     THEN /\ yielded' = IF Forwarded THEN <<AgentText("too many mistakes")>>
                        ELSE <<>>
          /\ opc' = IF Forwarded THEN "tripped" ELSE "abandoned"
          /\ UNCHANGED <<tool_queue, cpc, running_tools, done>>
     ELSE /\ yielded' = <<>>
          /\ opc' = "call"
          /\ tool_queue' = <<>>
          /\ cpc' = "loop"
          /\ running_tools' = EmptyMap
          /\ done' = {}
  /\ memory' = <<>>
  /\ UNCHANGED <<task_status, consecutive_tool_failures,
                 consecutive_code_failures, tool_results, depth, emit_i,
                 to_stream, next_id, resolved, aborts, agent_on>>
  /\ UNCHANGED <<parser_vars, fom_vars, bus_vars, state_manager, store_vars>>
  /\ UNCHANGED history

\* the breaker after its yield: task.fail(), both counters to 0, return
BreakerReturn ==
  /\ opc = "tripped"
  /\ task_status' = "failed"
  /\ consecutive_tool_failures' = 0
  /\ consecutive_code_failures' = 0
  /\ depth' = Return(depth).depth
  /\ opc' = Return(depth).opc
  /\ UNCHANGED <<tool_results, emit_i, to_stream, tool_queue, cpc,
                 running_tools, done, next_id, yielded, memory, resolved,
                 aborts, agent_on>>
  /\ UNCHANGED <<parser_vars, fom_vars, bus_vars, state_manager, store_vars>>
  /\ UNCHANGED history

RECURSIVE Requests(_, _)
\* the requests of a response asking for the tools of names, in order, with
\* fresh identifiers after id
Requests(names, id) ==
  IF names = <<>> THEN <<>>
  ELSE <<Request(Head(names), id + 1)>> \o Requests(Tail(names), id + 1)

\* the responses the model may stream: up to the remaining identifiers'
\* worth of tool uses, one follow-up question at most among them, and no
\* tool use in a frame of the deepest level
Responses ==
  LET left == IF depth < MaxDepth THEN MaxTools - next_id ELSE 0
      most == IF left < MaxPerResponse THEN left ELSE MaxPerResponse
  IN  { names \in UNION { [1 .. n -> ToolNames] : n \in 0 .. most } :
          Cardinality({ i \in DOMAIN names : names[i] = FOLLOWUP })
            <= MaxFollowups }

\* await asyncio.wait_for(acompletion(...), timeout=60) returns a stream
ModelCall ==
  /\ opc = "call"
  /\ \E names \in Responses :
       /\ to_stream' = Requests(names, next_id)
       /\ next_id' = next_id + Len(names)
  /\ opc' = "stream"
  /\ UNCHANGED <<task_status, consecutive_tool_failures,
                 consecutive_code_failures, tool_results, depth, emit_i,
                 tool_queue, cpc, running_tools, done, yielded, memory,
                 resolved, aborts, agent_on>>
  /\ UNCHANGED <<parser_vars, fom_vars, bus_vars, state_manager, store_vars>>
  /\ UNCHANGED history

\* the model call raises: asyncio.TimeoutError, BadRequestError or another
\* Exception; the handler yields its message
ModelCallRaises ==
  /\ opc = "call"
  /\ \E error \in { "TimeoutError", "BadRequestError", "Exception" } :
       /\ yielded' = IF Forwarded THEN Append(yielded, AgentText(error))
                     ELSE yielded
       /\ opc' = IF ~Forwarded THEN "abandoned"
                 ELSE IF error = "TimeoutError" THEN "timed_out"
                 ELSE "erred"
       /\ memory' = IF error = "TimeoutError" THEN memory
                    ELSE Append(memory, "assistant")
  /\ cpc' = IF Forwarded THEN cpc ELSE cancel_consumer(cpc)
  /\ UNCHANGED <<task_status, consecutive_tool_failures,
                 consecutive_code_failures, tool_results, depth, emit_i,
                 to_stream, tool_queue, running_tools, done, next_id,
                 resolved, aborts, agent_on>>
  /\ UNCHANGED <<parser_vars, fom_vars, bus_vars, state_manager, store_vars>>
  /\ UNCHANGED history

\* the handler after its yield: task.timeout() or task.fail(), then the
\* finally block cancels the consumer and the frame returns
HandlerReturn ==
  /\ opc \in { "timed_out", "erred" }
  /\ task_status' = IF opc = "timed_out" THEN "timeout" ELSE "failed"
  /\ cpc' = cancel_consumer(cpc)
  /\ depth' = Return(depth).depth
  /\ opc' = Return(depth).opc
  /\ UNCHANGED <<consecutive_tool_failures, consecutive_code_failures,
                 tool_results, emit_i, to_stream, tool_queue, running_tools,
                 done, next_id, yielded, memory, resolved, aborts, agent_on>>
  /\ UNCHANGED <<parser_vars, fom_vars, bus_vars, state_manager, store_vars>>
  /\ UNCHANGED history

\* StreamProcessor.process_stream, one tool use of the response: the chunk
\* loop breaks when the task is aborted; otherwise the executing event is
\* yielded and the request is put on the queue
StreamRequest ==
  /\ opc = "stream"
  /\ to_stream # <<>>
  /\ IF task_status = "aborted"
     THEN /\ to_stream' = <<>>
          /\ UNCHANGED <<tool_queue, yielded, history>>
     ELSE /\ to_stream' = Tail(to_stream)
          /\ yielded' = Append(yielded,
                               AgentTool(Head(to_stream).tool_id, "executing"))
          /\ history' = [history EXCEPT ![Head(to_stream).tool_id] =
                          Append(@, "executing")]
          /\ tool_queue' = Append(tool_queue, Head(to_stream))
  /\ UNCHANGED <<task_status, consecutive_tool_failures,
                 consecutive_code_failures, tool_results, depth, opc, emit_i,
                 cpc, running_tools, done, next_id, memory, resolved, aborts,
                 agent_on>>
  /\ UNCHANGED <<parser_vars, fom_vars, bus_vars, state_manager, store_vars>>

\* the stream has ended: await tool_queue.put(None)
StreamEnd ==
  /\ opc = "stream"
  /\ to_stream = <<>>
  /\ tool_queue' = Append(tool_queue, SENTINEL)
  /\ opc' = "await_consumer"
  /\ UNCHANGED <<task_status, consecutive_tool_failures,
                 consecutive_code_failures, tool_results, depth, emit_i,
                 to_stream, cpc, running_tools, done, next_id, yielded,
                 memory, resolved, aborts, agent_on>>
  /\ UNCHANGED <<parser_vars, fom_vars, bus_vars, state_manager, store_vars>>
  /\ UNCHANGED history

\* _tool_consumer, top of the while loop: on an aborted task every task is
\* cancelled, the queue is emptied and the loop is left.  cancel() has no
\* effect on a task that has already ended, so the tasks that end up
\* cancelled are any subset of the tasks
ConsumerLoop ==
  /\ cpc = "loop"
  /\ IF task_status = "aborted"
     THEN /\ \E cancelled \in SUBSET DOMAIN running_tools :
               running_tools' =
                 [id \in DOMAIN running_tools |->
                    [running_tools[id] EXCEPT !.cancelled = id \in cancelled]]
          /\ tool_queue' = <<>>
          /\ cpc' = "drain"
     ELSE /\ cpc' = IF DOMAIN running_tools # {} THEN "wait" ELSE "get"
          /\ UNCHANGED <<running_tools, tool_queue>>
  /\ UNCHANGED <<task_status, consecutive_tool_failures,
                 consecutive_code_failures, tool_results, depth, opc, emit_i,
                 to_stream, done, next_id, yielded, memory, resolved, aborts,
                 agent_on>>
  /\ UNCHANGED <<parser_vars, fom_vars, bus_vars, state_manager, store_vars>>
  /\ UNCHANGED history

\* asyncio.wait(running_tools.keys(), timeout=0.1, FIRST_COMPLETED) returns
\* the tasks that have ended by now: any of them, possibly none
ConsumerWait ==
  /\ cpc = "wait"
  /\ done' \in SUBSET DOMAIN running_tools
  /\ cpc' = "handle"
  /\ UNCHANGED <<task_status, consecutive_tool_failures,
                 consecutive_code_failures, tool_results, depth, opc, emit_i,
                 to_stream, tool_queue, running_tools, next_id, yielded,
                 memory, resolved, aborts, agent_on>>
  /\ UNCHANGED <<parser_vars, fom_vars, bus_vars, state_manager, store_vars>>
  /\ UNCHANGED history

\* for task in done: tool = running_tools.pop(task); await
\* self._handle_tool_result(task, tool) -- one iteration, the set's order
\* being arbitrary and the tool having returned ("ok") or raised ("fail");
\* after the last one the consumer turns to the queue
ConsumerHandle ==
  /\ cpc = "handle"
  /\ IF done = {}
     THEN /\ cpc' = "get"
          /\ UNCHANGED <<done, running_tools, consecutive_tool_failures,
                         tool_results, resolved>>
     ELSE \E id \in done, state \in { "ok", "fail" } :
            LET r == add_result(consecutive_tool_failures, tool_results,
                                running_tools[id].name, id, state)
            IN  /\ done' = done \ { id }
                /\ running_tools' = [i \in DOMAIN running_tools \ { id } |->
                                       running_tools[i]]
                /\ consecutive_tool_failures' = r.failures
                /\ tool_results' = r.results
                /\ resolved' = [resolved EXCEPT ![id] = @ + 1]
                /\ UNCHANGED cpc
  /\ UNCHANGED <<task_status, consecutive_code_failures, depth, opc, emit_i,
                 to_stream, tool_queue, next_id, yielded, memory, aborts,
                 agent_on>>
  /\ UNCHANGED <<parser_vars, fom_vars, bus_vars, state_manager, store_vars>>
  /\ UNCHANGED history

\* a consumer that never takes a request from the queue into execution
dispatch_nothing(tools, request) == tools

\* the task the consumer creates for a request it has taken from the queue
dispatch(tools, request) ==
  tools @@ (request.tool_id :> [name |-> request.name, cancelled |-> FALSE])

\* await asyncio.wait_for(tool_queue.get(), timeout=0.1): a timeout on an
\* empty queue, the sentinel, or a request for which a task is created
ConsumerGet ==
  /\ cpc = "get"
  /\ IF tool_queue = <<>>
     THEN /\ cpc' = "loop"
          /\ UNCHANGED <<tool_queue, running_tools>>
     ELSE /\ tool_queue' = Tail(tool_queue)
          /\ IF Head(tool_queue) = SENTINEL
             THEN /\ cpc' = "drain"
                  /\ UNCHANGED running_tools
             ELSE /\ cpc' = "loop"
                  /\ running_tools' = dispatch(running_tools, Head(tool_queue))
  /\ UNCHANGED <<task_status, consecutive_tool_failures,
                 consecutive_code_failures, tool_results, depth, opc, emit_i,
                 to_stream, done, next_id, yielded, memory, resolved, aborts,
                 agent_on>>
  /\ UNCHANGED <<parser_vars, fom_vars, bus_vars, state_manager, store_vars>>
  /\ UNCHANGED history

\* after the loop: done, pending = await asyncio.wait(running_tools.keys())
\* returns once every remaining task has ended or been cancelled
ConsumerDrain ==
  /\ cpc = "drain"
  /\ done' = DOMAIN running_tools
  /\ cpc' = IF DOMAIN running_tools = {} THEN "done" ELSE "drain_handle"
  /\ UNCHANGED <<task_status, consecutive_tool_failures,
                 consecutive_code_failures, tool_results, depth, opc, emit_i,
                 to_stream, tool_queue, running_tools, next_id, yielded,
                 memory, resolved, aborts, agent_on>>
  /\ UNCHANGED <<parser_vars, fom_vars, bus_vars, state_manager, store_vars>>
  /\ UNCHANGED history

\* for task in done: await self._handle_tool_result(task, tool) -- one
\* iteration; awaiting a cancelled task raises CancelledError, which
\* "except Exception" does not catch and which ends the consumer
ConsumerDrainHandle ==
  /\ cpc = "drain_handle"
  /\ IF done = {}
     THEN /\ cpc' = "done"
          /\ UNCHANGED <<done, consecutive_tool_failures, tool_results,
                         resolved>>
     ELSE \E id \in done, state \in { "ok", "fail" } :
            IF running_tools[id].cancelled
            THEN /\ cpc' = "raised"
                 /\ UNCHANGED <<done, consecutive_tool_failures, tool_results,
                                resolved>>
            ELSE LET r == add_result(consecutive_tool_failures, tool_results,
                                     running_tools[id].name, id, state)
                 IN  /\ done' = done \ { id }
                     /\ consecutive_tool_failures' = r.failures
                     /\ tool_results' = r.results
                     /\ resolved' = [resolved EXCEPT ![id] = @ + 1]
                     /\ UNCHANGED cpc
  /\ UNCHANGED <<task_status, consecutive_code_failures, depth, opc, emit_i,
                 to_stream, tool_queue, running_tools, next_id, yielded,
                 memory, aborts, agent_on>>
  /\ UNCHANGED <<parser_vars, fom_vars, bus_vars, state_manager, store_vars>>
  /\ UNCHANGED history

\* a check that only looks at the first result
has_followup_first(results) ==
  /\ results # <<>>
  /\ results[1].tool = FOLLOWUP
  /\ results[1].status = "success"

\* whether the results hold a successful ask-followup-question (402-409)
has_followup(results) ==
  \E i \in 1 .. Len(results) :
    results[i].tool = FOLLOWUP /\ results[i].status = "success"

\* await consumer_task returns: the assistant message is stored and the
\* results are looked at -- none, a follow-up question (its yield), or the
\* results message added to memory; a consumer that raised CancelledError
\* makes the await raise it through every frame and run()
ConsumerJoined ==
  /\ opc = "await_consumer"
  /\ cpc \in { "done", "raised" }
  /\ IF cpc = "raised"
     THEN /\ opc' = "raised"
          /\ depth' = 0
          /\ UNCHANGED <<task_status, yielded, memory>>
     ELSE IF tool_results = <<>>
     THEN /\ task_status' = "completed"
          /\ depth' = Return(depth).depth
          /\ opc' = Return(depth).opc
          /\ memory' = Append(memory, "assistant")
          /\ UNCHANGED yielded
     ELSE IF has_followup(tool_results)
     THEN /\ yielded' = IF Forwarded
                        THEN Append(yielded, AgentText("question"))
                        ELSE yielded
          /\ opc' = IF Forwarded THEN "followup" ELSE "abandoned"
          /\ memory' = Append(memory, "assistant")
          /\ UNCHANGED <<task_status, depth>>
     ELSE /\ opc' = "commit"
          /\ memory' = memory \o <<"assistant", "tool results">>
          /\ UNCHANGED <<task_status, depth, yielded>>
  /\ UNCHANGED <<consecutive_tool_failures, consecutive_code_failures,
                 tool_results, emit_i, to_stream, tool_queue, cpc,
                 running_tools, done, next_id, resolved, aborts, agent_on>>
  /\ UNCHANGED <<parser_vars, fom_vars, bus_vars, state_manager, store_vars>>
  /\ UNCHANGED history

\* the follow-up branch after its yield: task.complete() and return
FollowupReturn ==
  /\ opc = "followup"
  /\ task_status' = "completed"
  /\ depth' = Return(depth).depth
  /\ opc' = Return(depth).opc
  /\ UNCHANGED <<consecutive_tool_failures, consecutive_code_failures,
                 tool_results, emit_i, to_stream, tool_queue, cpc,
                 running_tools, done, next_id, yielded, memory, resolved,
                 aborts, agent_on>>
  /\ UNCHANGED <<parser_vars, fom_vars, bus_vars, state_manager, store_vars>>
  /\ UNCHANGED history

\* await self.file_operation_manager.commit_turn() inside try/except: when
\* the turn has changes the code-check hook's callback
\* _on_code_check_complete counts a check that found errors or resets the
\* counter, with the verdict of perform_code_checks
CommitStep ==
  /\ opc = "commit"
  /\ \E check \in { "none", IF perform_code_checks[1] THEN "failed" ELSE "passed" } :
       consecutive_code_failures' =
         IF check = "none" THEN consecutive_code_failures
         ELSE IF check = "passed" THEN 0
         ELSE consecutive_code_failures + 1
  /\ opc' = "emit"
  /\ emit_i' = 1
  /\ UNCHANGED <<task_status, consecutive_tool_failures, tool_results, depth,
                 to_stream, tool_queue, cpc, running_tools, done, next_id,
                 yielded, memory, resolved, aborts, agent_on>>
  /\ UNCHANGED <<parser_vars, fom_vars, bus_vars, state_manager, store_vars>>
  /\ UNCHANGED history

\* for result in tool_results: yield ToolEvent(completed | failed) -- one
\* iteration
EmitResult ==
  /\ opc = "emit"
  /\ emit_i <= Len(tool_results)
  /\ IF Forwarded
     THEN /\ yielded' = Append(yielded,
                 AgentTool(tool_results[emit_i].tool_id,
                           IF tool_results[emit_i].status = "success"
                           THEN "completed" ELSE "failed"))
          /\ history' = [history EXCEPT ![tool_results[emit_i].tool_id] =
                          Append(@, IF tool_results[emit_i].status = "success"
                                    THEN "completed" ELSE "failed")]
          /\ emit_i' = emit_i + 1
          /\ UNCHANGED opc
     ELSE /\ opc' = "abandoned"
          /\ UNCHANGED <<yielded, emit_i, history>>
  /\ UNCHANGED <<task_status, consecutive_tool_failures,
                 consecutive_code_failures, tool_results, depth, to_stream,
                 tool_queue, cpc, running_tools, done, next_id, memory,
                 resolved, aborts, agent_on>>
  /\ UNCHANGED <<parser_vars, fom_vars, bus_vars, state_manager, store_vars>>

\* clear_results() and the recursive call: a new innermost frame
Recurse ==
  /\ opc = "emit"
  /\ emit_i > Len(tool_results)
  /\ tool_results' = <<>>
  /\ depth' = depth + 1
  /\ opc' = "start"
  /\ emit_i' = 0
  /\ UNCHANGED <<task_status, consecutive_tool_failures,
                 consecutive_code_failures, to_stream, tool_queue, cpc,
                 running_tools, done, next_id, yielded, memory, resolved,
                 aborts, agent_on>>
  /\ UNCHANGED <<parser_vars, fom_vars, bus_vars, state_manager, store_vars>>
  /\ UNCHANGED history

\* the caller after the recursive call has returned (463-464): the task is
\* completed when no results are left, and the frame returns
AfterRecursion ==
  /\ opc = "after_recursion"
  /\ task_status' = IF tool_results = <<>> THEN "completed" ELSE task_status
  /\ depth' = Return(depth).depth
  /\ opc' = Return(depth).opc
  /\ UNCHANGED <<consecutive_tool_failures, consecutive_code_failures,
                 tool_results, emit_i, to_stream, tool_queue, cpc,
                 running_tools, done, next_id, yielded, memory, resolved,
                 aborts, agent_on>>
  /\ UNCHANGED <<parser_vars, fom_vars, bus_vars, state_manager, store_vars>>
  /\ UNCHANGED history

(***************************************************************************)
(* The same step with the response parsed: StreamProcessor.process_stream  *)
(* feeds the response to the parser, yields the parser's events and queues *)
(* a request for every executing event.  The response arrives in chunks,   *)
(* one per token; to_stream holds the chunks still to come.                *)
(***************************************************************************)
\* the name of a tool as the agent compares it
tool_label(name) ==
  IF name = ToolUseName[6] THEN FOLLOWUP
  ELSE IF name = ToolUseName[2] THEN WRITE_FILE
  ELSE "other"

\* the events a parser call has yielded: what out has gained
NewEvents(before, after) ==
  SubSeq(after.out, Len(before.out) + 1, Len(after.out))

\* a stream event as run() yields it
AgentEvent(e) ==
  IF e.type = "tool" THEN AgentTool(e.tool_id, e.status)
  ELSE AgentText(e.type)

RECURSIVE AgentEvents(_)
AgentEvents(events) ==
  IF events = <<>> THEN <<>>
  ELSE <<AgentEvent(Head(events))>> \o AgentEvents(Tail(events))

RECURSIVE requests_of_all(_)
\* a stream processor that queues a request for every Tool event
requests_of_all(events) ==
  IF events = <<>> THEN <<>>
  ELSE (IF Head(events).type = "tool"
        THEN <<Request(tool_label(Head(events).tool_name),
                       Head(events).tool_id)>>
        ELSE <<>>) \o requests_of_all(Tail(events))

RECURSIVE requests_of(_)
\* the requests process_stream puts on the queue for a run of events: one
\* for every Tool event with status executing
requests_of(events) ==
  IF events = <<>> THEN <<>>
  ELSE (IF Head(events).type = "tool" /\ Head(events).status = "executing"
        THEN <<Request(tool_label(Head(events).tool_name),
                       Head(events).tool_id)>>
        ELSE <<>>) \o requests_of(Tail(events))

\* the events the parser yields while it processes the character at the
\* head of content, or, when content is used up, in the flush at the end of
\* the chunk
PendingEvents(m, content) ==
  IF content = <<>> THEN EndChunk([m EXCEPT !.out = <<>>]).out
  ELSE ProcessChar([m EXCEPT !.out = <<>>], Head(content)).out

\* the parser once that character, or that flush, is behind it
After(m, content) ==
  IF content = <<>> THEN [EndChunk(m) EXCEPT !.out = <<>>]
  ELSE [ProcessChar(m, Head(content)) EXCEPT !.out = <<>>]

RECURSIVE RunToYield(_, _)
\* the generator self.parser(content) from where it is to its next yield:
\* [m, content] is where it stops, before the character (or the flush) that
\* yields; finished tells that it has returned instead
RunToYield(m, content) ==
  IF PendingEvents(m, content) # <<>>
  THEN [m |-> m, content |-> content, finished |-> FALSE]
  ELSE IF content = <<>>
  THEN [m |-> After(m, content), content |-> <<>>, finished |-> TRUE]
  ELSE RunToYield(After(m, content), Tail(content))

\* the fields of the parser while its generator is suspended at the yield
\* of event e, the k-th event of the character at the head of content: a
\* flush yields before it empties its buffer; the started event is yielded
\* with the tool already open; the partial event with the parameter stored
\* and still current; the executing event with the tool still open; and
\* the tag is still being accumulated in every case
Suspended(m, content, e) ==
  IF content = <<>> THEN m
  ELSE LET acc  == Append(m.st.accumulated_tag, Head(content))
           base == [m.st EXCEPT !.accumulated_tag = acc]
           m1   == ProcessChar(m, Head(content))
       IN  IF e.type # "tool" THEN [m EXCEPT !.st = base]
           ELSE IF e.status = "started"
           THEN [m1 EXCEPT !.st = [m1.st EXCEPT !.accumulating_tag = TRUE,
                                                !.accumulated_tag = acc],
                           !.out = m.out]
           ELSE IF e.status = "partial"
           THEN [m EXCEPT !.st = [base EXCEPT
                                    !.current_params = m1.st.current_params]]
           ELSE [m EXCEPT !.st = base]

\* the pieces a response is made of: a tool block left open, its closing
\* tag, a whole tool block, a follow-up question
TurnTokens ==
  { OpenTag(READ_FILE) \o OpenTag(PATH) \o <<"a">> \o CloseTag(PATH),
    CloseTag(READ_FILE),
    OpenTag(READ_FILE) \o OpenTag(PATH) \o <<"a">> \o CloseTag(PATH)
      \o CloseTag(READ_FILE),
    OpenTag(ToolUseName[6]) \o CloseTag(ToolUseName[6]) }

\* the responses of the model, as sequences of chunks with content (a
\* chunk without content is skipped, so a response may have none): tool
\* blocks, well formed or not, in the first response; afterwards one more
\* tool block, a closing tag alone, a thinking block left open, or plain text
TurnInputs ==
  IF parser.uid = 0
  THEN UNION { [1 .. n -> TurnTokens] : n \in 0 .. MaxTurnTokens }
  ELSE IF parser.uid < MaxTurnTools
  THEN { << OpenTag(READ_FILE) \o OpenTag(PATH) \o <<"a">> \o CloseTag(PATH)
              \o CloseTag(READ_FILE) >>,
         << CloseTag(READ_FILE) >>,
         << OpenTag(THINKING) \o <<"a">> >>,
         << <<"a">> >>,
         << >> }
  ELSE { << <<"a">> >>, << >> }

\* the model call returns a stream
ModelCallParsed ==
  /\ opc = "call"
  /\ to_stream' \in TurnInputs
  /\ opc' = "parse"
  /\ UNCHANGED <<task_status, consecutive_tool_failures,
                 consecutive_code_failures, tool_results, depth, emit_i,
                 tool_queue, cpc, running_tools, done, next_id, yielded,
                 memory, resolved, aborts, agent_on>>
  /\ UNCHANGED <<parser_vars, fom_vars, bus_vars, state_manager, store_vars>>
  /\ UNCHANGED history

\* what process_stream does when the generator of the parser has stopped
\* at r: it waits at the yield of an event, or goes to the next chunk
parse_on(r) ==
  /\ parser' = r.m
  /\ IF r.finished
     THEN /\ to_stream' = Tail(to_stream)
          /\ opc' = "parse"
     ELSE /\ to_stream' = [to_stream EXCEPT ![1] = r.content]
          /\ opc' = "yield"

\* the top of the chunk loop: the loop is left when the task is aborted;
\* otherwise the chunk is given to the parser, which runs to its first
\* yield.  While a chunk is being parsed, the head of to_stream is what is
\* left of it and parser.out holds the events already delivered of the
\* character that is being processed.
ParseChunk ==
  /\ opc = "parse"
  /\ to_stream # <<>>
  /\ IF task_status = "aborted"
     THEN /\ to_stream' = <<>>
          /\ UNCHANGED <<parser, opc>>
     ELSE parse_on(RunToYield([StartChunk(parser) EXCEPT !.out = <<>>],
                              Head(to_stream)))
  /\ UNCHANGED <<input, pos, in_chunk, whole, stream_done>>
  /\ UNCHANGED <<task_status, consecutive_tool_failures,
                 consecutive_code_failures, tool_results, depth, emit_i,
                 tool_queue, cpc, running_tools, done, next_id, yielded,
                 memory, resolved, aborts, agent_on>>
  /\ UNCHANGED <<fom_vars, bus_vars, state_manager, store_vars>>
  /\ UNCHANGED history

\* an event of the parser reaches run(): on an aborted task run() stops
\* and the generators stay where they are, the parser with the fields it
\* had at its yield; otherwise the event is delivered
YieldParsed ==
  /\ opc = "yield"
  /\ LET content == Head(to_stream)
         e == PendingEvents(parser, content)[Len(parser.out) + 1]
     IN  IF ~Forwarded
         THEN /\ opc' = "abandoned"
              /\ cpc' = cancel_consumer(cpc)
              /\ parser' = [Suspended(parser, content, e) EXCEPT !.out = <<>>]
              /\ to_stream' = <<>>
              /\ UNCHANGED <<yielded, history>>
         ELSE /\ opc' = "resume"
              /\ parser' = [parser EXCEPT !.out = Append(@, e)]
              /\ yielded' = Append(yielded, AgentEvent(e))
              /\ history' = IF e.type = "tool"
                            THEN [history EXCEPT ![e.tool_id] =
                                    Append(@, e.status)]
                            ELSE history
              /\ UNCHANGED <<cpc, to_stream>>
  /\ UNCHANGED <<input, pos, in_chunk, whole, stream_done>>
  /\ UNCHANGED <<task_status, consecutive_tool_failures,
                 consecutive_code_failures, tool_results, depth, emit_i,
                 tool_queue, running_tools, done, next_id, memory, resolved,
                 aborts, agent_on>>
  /\ UNCHANGED <<fom_vars, bus_vars, state_manager, store_vars>>

\* process_stream is resumed after its yield: the request of an executing
\* event is put on the queue, and the parser runs to its next yield
ResumeParsed ==
  /\ opc = "resume"
  /\ LET content == Head(to_stream)
         e == parser.out[Len(parser.out)]
     IN  /\ tool_queue' = tool_queue \o requests_of(<<e>>)
         /\ IF Len(parser.out) < Len(PendingEvents(parser, content))
            THEN /\ opc' = "yield"
                 /\ UNCHANGED <<parser, to_stream>>
            ELSE IF content = <<>>
            THEN parse_on([m |-> After(parser, content), content |-> <<>>,
                           finished |-> TRUE])
            ELSE parse_on(RunToYield(After(parser, content), Tail(content)))
  /\ UNCHANGED <<input, pos, in_chunk, whole, stream_done>>
  /\ UNCHANGED <<task_status, consecutive_tool_failures,
                 consecutive_code_failures, tool_results, depth, emit_i, cpc,
                 running_tools, done, next_id, yielded, memory, resolved,
                 aborts, agent_on>>
  /\ UNCHANGED <<fom_vars, bus_vars, state_manager, store_vars>>
  /\ UNCHANGED history

\* after the chunk loop: parser(None) flushes and resets the parser, its
\* events are yielded (run() stops at the first one on an aborted task),
\* and the sentinel is put on the queue
ParseEnd ==
  /\ opc = "parse"
  /\ to_stream = <<>>
  /\ LET m == FeedEnd([parser EXCEPT !.out = <<>>])
         events == m.out
     IN  IF events # <<>> /\ ~Forwarded
         THEN /\ opc' = "abandoned"
              /\ cpc' = cancel_consumer(cpc)
              /\ UNCHANGED <<parser, yielded, tool_queue>>
         ELSE /\ parser' = [m EXCEPT !.out = <<>>]
              /\ yielded' = yielded \o AgentEvents(events)
              /\ tool_queue' = Append(tool_queue, SENTINEL)
              /\ opc' = "await_consumer"
              /\ UNCHANGED cpc
  /\ UNCHANGED <<input, pos, in_chunk, whole, stream_done>>
  /\ UNCHANGED <<task_status, consecutive_tool_failures,
                 consecutive_code_failures, tool_results, depth, emit_i,
                 to_stream, running_tools, done, next_id, memory, resolved,
                 aborts, agent_on>>
  /\ UNCHANGED <<fom_vars, bus_vars, state_manager, store_vars>>
  /\ UNCHANGED history

(***************************************************************************)
(* EventBus: subscribers kept in one set per event type, publish and       *)
(* publish_async.                                                          *)
(***************************************************************************)
\* the event type subscribed to and published (one key of the dictionaries)
EventTypes == { "TOOL_REQUESTED" }

\* the synchronous callbacks
SyncCallbacks == { "s1", "s2" }

\* the asynchronous callbacks
AsyncCallbacks == { "a1", "a2" }

\* no publish call has been made yet
NoPublish ==
  [op |-> "none", event_type |-> "", phase |-> "sync", start |-> {},
   visited |-> {}, calls |-> <<>>, raised |-> {}, changed |-> FALSE,
   result |-> "returned"]

\* the state after EventBus.__init__
BusInit ==
  /\ sync_subscribers = [e \in EventTypes |-> {}]
  /\ async_subscribers = [e \in EventTypes |-> {}]
  /\ subscribed = [e \in EventTypes |-> <<>>]
  /\ pub = NoPublish

\* a publish call of the event type is between two of its callbacks
Publishing(event_type) == pub.result = "running" /\ pub.event_type = event_type

\* the running publish call of the event type has seen its subscribers change
note_change(event_type) ==
  IF Publishing(event_type) THEN [pub EXCEPT !.changed = TRUE] ELSE pub

\* the order of subscription after callback has been added to its set
added(event_type, callback, subscribers) ==
  IF callback \in subscribers[event_type] THEN subscribed
  ELSE [subscribed EXCEPT ![event_type] = Append(@, callback)]

\* the order of subscription after callback has been discarded from its set
discarded(event_type, callback) ==
  [subscribed EXCEPT ![event_type] = SelectSeq(@, LAMBDA c : c # callback)]

\* subscribe(event_type, callback)
Subscribe(event_type, callback) ==
  /\ callback \in SyncCallbacks
  /\ sync_subscribers' = [sync_subscribers EXCEPT ![event_type] = @ \cup { callback }]
  /\ subscribed' = added(event_type, callback, sync_subscribers)
  /\ pub' = IF sync_subscribers' # sync_subscribers THEN note_change(event_type) ELSE pub
  /\ UNCHANGED async_subscribers
  /\ UNCHANGED <<parser_vars, fom_vars, store_vars, agent_vars, state_manager>>

\* subscribe_async(event_type, callback)
SubscribeAsync(event_type, callback) ==
  /\ callback \in AsyncCallbacks
  /\ async_subscribers' = [async_subscribers EXCEPT ![event_type] = @ \cup { callback }]
  /\ subscribed' = added(event_type, callback, async_subscribers)
  /\ pub' = IF async_subscribers' # async_subscribers THEN note_change(event_type) ELSE pub
  /\ UNCHANGED sync_subscribers
  /\ UNCHANGED <<parser_vars, fom_vars, store_vars, agent_vars, state_manager>>

\* unsubscribe(event_type, callback)
Unsubscribe(event_type, callback) ==
  /\ callback \in SyncCallbacks
  /\ sync_subscribers' = [sync_subscribers EXCEPT ![event_type] = @ \ { callback }]
  /\ subscribed' = IF callback \in sync_subscribers[event_type]
                   THEN discarded(event_type, callback) ELSE subscribed
  /\ pub' = IF sync_subscribers' # sync_subscribers THEN note_change(event_type) ELSE pub
  /\ UNCHANGED async_subscribers
  /\ UNCHANGED <<parser_vars, fom_vars, store_vars, agent_vars, state_manager>>

\* unsubscribe_async(event_type, callback)
UnsubscribeAsync(event_type, callback) ==
  /\ callback \in AsyncCallbacks
  /\ async_subscribers' = [async_subscribers EXCEPT ![event_type] = @ \ { callback }]
  /\ subscribed' = IF callback \in async_subscribers[event_type]
                   THEN discarded(event_type, callback) ELSE subscribed
  /\ pub' = IF async_subscribers' # async_subscribers THEN note_change(event_type) ELSE pub
  /\ UNCHANGED sync_subscribers
  /\ UNCHANGED <<parser_vars, fom_vars, store_vars, agent_vars, state_manager>>

\* the for loop over the synchronous or the asynchronous subscribers begins
begin_loop(p, phase, subscribers) ==
  [p EXCEPT !.phase = phase, !.start = subscribers, !.visited = {}]

\* a publish call begins
begin_publish(op, event_type) ==
  begin_loop([NoPublish EXCEPT !.op = op, !.event_type = event_type,
                               !.result = "running"],
             "sync", sync_subscribers[event_type])

\* publish(event_type, data) is called
Publish(event_type) ==
  /\ pub.result # "running"
  /\ pub' = begin_publish("publish", event_type)
  /\ UNCHANGED <<sync_subscribers, async_subscribers, subscribed>>
  /\ UNCHANGED <<parser_vars, fom_vars, store_vars, agent_vars, state_manager>>

\* publish_async(event_type, data) is called and calls publish
PublishAsync(event_type) ==
  /\ pub.result # "running"
  /\ pub' = begin_publish("publish_async", event_type)
  /\ UNCHANGED <<sync_subscribers, async_subscribers, subscribed>>
  /\ UNCHANGED <<parser_vars, fom_vars, store_vars, agent_vars, state_manager>>

\* the set the running loop iterates over, as it is now
Iterated ==
  IF pub.phase = "sync" THEN sync_subscribers[pub.event_type]
  ELSE async_subscribers[pub.event_type]

\* a callback whose exception leaves the publish call
after_call_propagating(p, callback, raises) ==
  [p EXCEPT !.visited = @ \cup { callback },
            !.calls = Append(@, callback),
            !.raised = IF raises THEN @ \cup { callback } ELSE @,
            !.result = IF raises THEN "raised" ELSE @]

\* the callback has been called inside try/except Exception: whether it
\* returned or raised, the loop goes on
after_call(p, callback, raises) ==
  [p EXCEPT !.visited = @ \cup { callback },
            !.calls = Append(@, callback),
            !.raised = IF raises THEN @ \cup { callback } ELSE @]

\* the loop takes the next callback of the set, in the set's own order, and
\* calls it (awaits it, for an asynchronous one); the callback returns or
\* raises
CallSubscriber ==
  /\ pub.result = "running"
  /\ Cardinality(Iterated) = Cardinality(pub.start)
  /\ \E callback \in Iterated \ pub.visited : \E raises \in BOOLEAN :
       pub' = after_call(pub, callback, raises)
  /\ UNCHANGED <<sync_subscribers, async_subscribers, subscribed>>
  /\ UNCHANGED <<parser_vars, fom_vars, store_vars, agent_vars, state_manager>>

\* the loop finds the size of its set changed: RuntimeError leaves the call
SetChanged ==
  /\ pub.result = "running"
  /\ Cardinality(Iterated) # Cardinality(pub.start)
  /\ pub' = [pub EXCEPT !.result = "RuntimeError"]
  /\ UNCHANGED <<sync_subscribers, async_subscribers, subscribed>>
  /\ UNCHANGED <<parser_vars, fom_vars, store_vars, agent_vars, state_manager>>

\* the loop is exhausted: publish returns, and publish_async goes on to
\* the asynchronous subscribers or returns
LoopEnds ==
  /\ pub.result = "running"
  /\ Cardinality(Iterated) = Cardinality(pub.start)
  /\ (Iterated \ pub.visited) \cap pub.start = {}
  /\ pub' = IF pub.op = "publish_async" /\ pub.phase = "sync"
            THEN begin_loop(pub, "async", async_subscribers[pub.event_type])
            ELSE [pub EXCEPT !.result = "returned"]
  /\ UNCHANGED <<sync_subscribers, async_subscribers, subscribed>>
  /\ UNCHANGED <<parser_vars, fom_vars, store_vars, agent_vars, state_manager>>

\* the subsystems a specification does not exercise stay as constructed
(***************************************************************************)
(* StateManager (agents/coder/state_manager): the task, streaming and tool *)
(* states and the methods that write them.  task.status, the two counters  *)
(* and tool_results are the agent's variables; state_manager holds the     *)
(* other fields.                                                           *)
(***************************************************************************)
\* the None of a datetime field
NoTime == -1

\* the task identifiers run() and resume() pass
TaskIds == { "task1", "task2" }

\* the texts that are streamed into current_message
StreamedTexts == { "", "text" }

\* the state after StateManager.__init__ (id None is written "")
StateInit ==
  state_manager = [id |-> "", start_time |-> NoTime, end_time |-> NoTime,
                   is_active |-> FALSE, current_message |-> "",
                   completed_tools |-> {}, failed_tools |-> {}]

\* TaskState.start: the fields of the task other than the status
start(task, task_id, time) ==
  [task EXCEPT !.id = task_id, !.start_time = time]

\* a call on the StateManager: the frozen parts, and the call that was made
StateCall(call) ==
  /\ last_call' = call
  /\ UNCHANGED <<path_universe, disk, current_turn, write_hooks, post_commit_hooks,
                 pc, hook_i, nb_pc, turn_copies, commit_log, committed,
                 commit_disk, applied>>
  /\ UNCHANGED <<parser_vars, store_vars, bus_vars>>
  /\ UNCHANGED <<agent_on, depth, opc, emit_i, to_stream, tool_queue, cpc,
                 running_tools, done, next_id, yielded, memory, resolved,
                 aborts, history>>

\* StateManager.reset_for_new_task(task_id): no await in it, so it runs as
\* one step of the event loop
ResetForNewTask ==
  /\ \E task_id \in TaskIds :
       /\ state_manager' =
            [start(state_manager, task_id, now) EXCEPT
               !.is_active = FALSE, !.current_message = "",
               !.completed_tools = {}, !.failed_tools = {}]
       /\ StateCall([op |-> "reset_for_new_task", error |-> "", task_id |-> task_id])
  /\ task_status' = "running"
  /\ tool_results' = <<>>
  /\ consecutive_tool_failures' = 0
  /\ consecutive_code_failures' = 0

\* TaskState.complete, fail, abort and timeout
TaskEnds ==
  /\ \E status \in TERMINAL :
       /\ task_status' = status
       /\ StateCall(Call(status, ""))
  /\ state_manager' = [state_manager EXCEPT !.end_time = now]
  /\ UNCHANGED <<tool_results, consecutive_tool_failures, consecutive_code_failures>>

\* ToolState.add_success and add_failure
AddToolResult ==
  /\ Len(tool_results) < MaxRecorded
  /\ \E tool_name \in ToolNames, state \in { "ok", "error" } :
       LET r == add_result(consecutive_tool_failures, tool_results, tool_name,
                           Len(tool_results) + 1, state)
       IN  /\ consecutive_tool_failures' = r.failures
           /\ tool_results' = r.results
           /\ state_manager' =
                IF state = "ok"
                THEN [state_manager EXCEPT !.completed_tools = @ \cup {tool_name}]
                ELSE [state_manager EXCEPT !.failed_tools = @ \cup {tool_name}]
           /\ StateCall(Call(IF state = "ok" THEN "add_success" ELSE "add_failure", ""))
  /\ UNCHANGED <<task_status, consecutive_code_failures>>

\* the writes of StreamProcessor.process_stream to the streaming state: the
\* stream starts, a chunk is added to the message, the stream ends
Streaming ==
  /\ \E is_active \in BOOLEAN, current_message \in StreamedTexts :
       /\ state_manager' = [state_manager EXCEPT !.is_active = is_active,
                                                  !.current_message = current_message]
       /\ state_manager' # state_manager
  /\ StateCall(Call("process_stream", ""))
  /\ UNCHANGED <<task_status, tool_results, consecutive_tool_failures,
                 consecutive_code_failures>>

ExtIdle == StoreInit({}, 0, 0) /\ AgentInit(FALSE) /\ BusInit /\ StateInit

ParserInit ==
  /\ input \in ParserInputs
  /\ pos = 0
  /\ parser = NewParser
  /\ in_chunk = FALSE
  /\ whole = NewParser
  /\ stream_done = FALSE
  /\ FomInit(BasicPaths)
  /\ ExtIdle

ParserNext == FeedChar \/ ChunkBoundary \/ FeedEndOfStream

ParserSpec == ParserInit /\ [][ParserNext]_vars

\* the manager with registered hooks: turns, commits and the hook pipeline
Init == ParserIdle /\ FomInit({ A_FILE }) /\ ExtIdle

Next ==
  \/ AddWriteHook
  \/ AddPostCommitHook
  \/ BeginTurnCall
  \/ DiscardTurnCall
  \/ OrchestratorStep
  \/ WriteFileCall
  \/ DeleteFileCall
  \/ RenameFileCall
  \/ AddDependencyCall
  \/ CommitTurnCall
  \/ RunHookFunc
  \/ RunHookCallback
  \/ ApplyChanges
  \/ StartNonBlocking
  \/ RunNonBlockingFunc
  \/ RunNonBlockingCallback
  \/ GatherDone
  \/ CommitFinally

Spec == Init /\ [][Next]_vars

\* post-commit hooks whose functions change the turn they are given
CopyNext ==
  \/ AddPostCommitHook
  \/ BeginTurnCall
  \/ WriteFileCall
  \/ CommitTurnCall
  \/ RunHookFunc
  \/ RunHookCallback
  \/ ApplyChanges
  \/ StartNonBlocking
  \/ RunNonBlockingFunc
  \/ MutateCopy
  \/ RunNonBlockingCallback
  \/ GatherDone
  \/ CommitFinally

CopySpec == Init /\ [][CopyNext]_vars

\* the manager with the hooks of the HookManager
HookNext ==
  \/ RegisterAllHooks
  \/ BeginTurnCall
  \/ WriteFileCall
  \/ CommitTurnCall
  \/ ApplyChanges
  \/ CodeCheckHook
  \/ OnCodeCheckComplete
  \/ StartNonBlocking
  \/ GitSnapshotHook
  \/ ProjectBackupHook
  \/ OnBackgroundHookComplete
  \/ GatherDone
  \/ CommitFinally

HookSpec == Init /\ [][HookNext]_vars

\* the state manager called on its own
StateNext ==
  \/ ResetForNewTask
  \/ TaskEnds
  \/ AddToolResult
  \/ Streaming
  \/ Tick

StateSpec == Init /\ [][StateNext]_vars

\* the manager and the file tools recording changes on protected and
\* unprotected paths
PathInit == ParserIdle /\ FomInit(AllPaths) /\ ExtIdle

PathNext ==
  \/ BeginTurnCall
  \/ DiscardTurnCall
  \/ OrchestratorStep
  \/ WriteFileCall
  \/ DeleteFileCall
  \/ RenameFileCall
  \/ AddDependencyCall
  \/ ToolCall

PathSpec == PathInit /\ [][PathNext]_vars

StoreNext ==
  \/ Tick
  \/ \E t \in Threads :
       \/ PushCall(t)
       \/ ShouldCompact(t)
       \/ CheckTokens(t)
       \/ CompactCall(t)
       \/ AcquireLock(t)
       \/ LockTimeout(t)
       \/ CompactRead(t)
       \/ CompactDelete(t)
       \/ CompactRpush(t)
       \/ ReleaseLock(t)
       \/ ReturnCall(t)

\* the compacting list store called from several threads
SharedStoreInit ==
  ParserIdle /\ FomInit(BasicPaths) /\ StoreInit(Threads, MaxShared, 1)
    /\ AgentInit(FALSE) /\ BusInit /\ StateInit

StoreSpec == SharedStoreInit /\ [][StoreNext]_vars

CompactNext ==
  \/ Tick
  \/ \E t \in Threads :
       \/ PushCall(t)
       \/ ShouldCompact(t)
       \/ CheckTokens(t)
       \/ CompactCall(t)
       \/ AcquireLock(t)
       \/ CompactRead(t)
       \/ CompactDelete(t)
       \/ CompactRpush(t)
       \/ ReleaseLock(t)
       \/ ReturnCall(t)

\* the compacting list store called from one thread, on longer lists
CompactInit ==
  ParserIdle /\ FomInit(BasicPaths) /\ StoreInit({ 1 }, MaxMessages, MaxPush)
    /\ AgentInit(FALSE) /\ BusInit /\ StateInit

CompactSpec == CompactInit /\ [][CompactNext]_vars

\* the agent processing tasks, with abort() called at any moment
AgentStart ==
  ParserIdle /\ FomInit(BasicPaths) /\ StoreInit({}, 0, 0) /\ AgentInit(TRUE) /\ BusInit /\ StateInit

AgentNext ==
  \/ Run
  \/ Abort
  \/ StepStart
  \/ BreakerReturn
  \/ ModelCall
  \/ ModelCallRaises
  \/ HandlerReturn
  \/ StreamRequest
  \/ StreamEnd
  \/ ConsumerLoop
  \/ ConsumerWait
  \/ ConsumerHandle
  \/ ConsumerGet
  \/ ConsumerDrain
  \/ ConsumerDrainHandle
  \/ ConsumerJoined
  \/ FollowupReturn
  \/ CommitStep
  \/ EmitResult
  \/ Recurse
  \/ AfterRecursion

AgentSpec == AgentStart /\ [][AgentNext]_vars

\* the agent with the model's response going through the parser
TurnNext ==
  \/ Run
  \/ Abort
  \/ StepStart
  \/ BreakerReturn
  \/ ModelCallParsed
  \/ ModelCallRaises
  \/ HandlerReturn
  \/ ParseChunk
  \/ YieldParsed
  \/ ResumeParsed
  \/ ParseEnd
  \/ ConsumerLoop
  \/ ConsumerWait
  \/ ConsumerHandle
  \/ ConsumerGet
  \/ ConsumerDrain
  \/ ConsumerDrainHandle
  \/ ConsumerJoined
  \/ FollowupReturn
  \/ CommitStep
  \/ EmitResult
  \/ Recurse
  \/ AfterRecursion

TurnSpec == AgentStart /\ [][TurnNext]_vars

\* the event bus: subscriptions and publish calls
BusStart ==
  ParserIdle /\ FomInit(BasicPaths) /\ StoreInit({}, 0, 0) /\ AgentInit(FALSE) /\ BusInit /\ StateInit

BusNext ==
  \/ \E event_type \in EventTypes :
       \/ \E callback \in SyncCallbacks :
            \/ Subscribe(event_type, callback)
            \/ Unsubscribe(event_type, callback)
       \/ \E callback \in AsyncCallbacks :
            \/ SubscribeAsync(event_type, callback)
            \/ UnsubscribeAsync(event_type, callback)
       \/ Publish(event_type)
       \/ PublishAsync(event_type)
  \/ CallSubscriber
  \/ SetChanged
  \/ LoopEnds

BusSpec == BusStart /\ [][BusNext]_vars

(***************************************************************************)
(* Properties of the parser (specification ParserSpec).                    *)
(***************************************************************************)
RECURSIVE TextOf(_)
\* the contents of the Text and Thinking events of a stream of events,
\* concatenated in emission order
TextOf(out) ==
  IF out = <<>> THEN <<>>
  ELSE IF Head(out).type \in {"text", "thinking"}
    THEN Head(out).text \o TextOf(Tail(out))
  ELSE TextOf(Tail(out))

\* the Tool events of a stream of events that have the given status
WithStatus(out, status) ==
  SelectSeq(out, LAMBDA e : e.type = "tool" /\ e.status = status)

\* C1: once end-of-stream has been fed, the Text and Thinking contents the
\* parser emitted for the chunked input, concatenated in emission order,
\* equal those of the instance that was fed the whole input in one call.
C1_ChunkIndependence ==
  stream_done => TextOf(parser.out) = TextOf(whole.out)

\* C1 witness: a finished stream whose chunking split the text into more
\* events than the single call emitted
C1_Witness ==
  /\ stream_done
  /\ TextOf(whole.out) # <<>>
  /\ Len(parser.out) > Len(whole.out)

\* C2: for a write-to-file block whose content holds a tag-like substring
\* that is no known tag, every chunking yields exactly one executing Tool
\* event, with the complete path and the content kept literally.
C2_UnknownTagKeptInContent ==
  \A c \in WriteContents :
    (stream_done /\ input = WriteBlock(c)) =>
      WithStatus(parser.out, "executing") =
        << ToolEvent(WRITE_TO_FILE, 1, "executing",
                     MapSet(MapSet(EmptyMap, PATH, A_TXT), CONTENT, c)) >>

\* C2 witness: the block with content x<y>z has been parsed to its end and
\* its executing event carries x<y>z
C2_Witness ==
  /\ stream_done
  /\ input = WriteBlock(<<"x", "<", "y", ">", "z">>)
  /\ Len(WithStatus(parser.out, "executing")) = 1
  /\ WithStatus(parser.out, "executing")[1].params[CONTENT] = <<"x", "<", "y", ">", "z">>

(***************************************************************************)
(* Properties of commit_turn (specification Spec) and of turns             *)
(* (specification PathSpec for C4).                                        *)
(***************************************************************************)
\* a commit_turn call made on a live turn has returned or raised
CommitEnded == pc = Idle /\ last_call.op = "commit_turn" /\ committed # <<>>

\* the running or latest commit_turn has awaited the function of the hook
FuncRan(hook_name) ==
  \E n \in 1 .. Len(commit_log) :
    commit_log[n].ev = "func" /\ commit_log[n].hook = hook_name

\* ... or its callback
CallbackRan(hook_name) ==
  \E n \in 1 .. Len(commit_log) :
    commit_log[n].ev = "callback" /\ commit_log[n].hook = hook_name

\* ... or has reached the loop that applies the changes
ApplyStarted ==
  \E n \in 1 .. Len(commit_log) : commit_log[n].ev = "apply"

\* ... or has started a post-commit hook, blocking or not
PostStarted ==
  \E n \in 1 .. Len(commit_log) : commit_log[n].phase \in {"post", "nb"}

\* C3, as the code has it: the changes a commit_turn has applied are always
\* a prefix of the turn's change log, taken in log order; a commit_turn that
\* returns has applied all of them, one that raises while applying has
\* applied exactly those before the failing change; and a post-commit hook
\* runs only after every change has been applied and only if the turn had at
\* least one change.
C3_AppliedPrefix ==
  committed # <<>> =>
    LET changes == committed[1].changes
    IN  /\ applied \in 0 .. Len(changes)
        /\ disk = ApplyPrefix(commit_disk, changes, applied)
        /\ (CommitEnded /\ last_call.error = "" => applied = Len(changes))
        /\ (PostStarted => applied = Len(changes) /\ Len(changes) > 0)

\* C3 witness: a commit_turn that raised while applying the second of two
\* changes, with the first one on disk
C3_Witness ==
  /\ CommitEnded
  /\ last_call.error = "Exception"
  /\ Len(committed[1].changes) = 2
  /\ applied = 1
  /\ disk # commit_disk

\* C3 as stated: when commit_turn has ended, every change of the log is on
\* disk or none is.
C3_AllOrNone ==
  CommitEnded =>
    \/ disk = commit_disk
    \/ disk = ApplyPrefix(commit_disk, committed[1].changes,
                          Len(committed[1].changes))

\* C4: begin_turn on a manager with a live turn raises and leaves the turn
\* and its change log as they were; the orchestrator's discard_turn followed
\* by begin_turn never raises and leaves a fresh turn; and there is never
\* more than one live turn.
C4_OneLiveTurn ==
  [][ /\ (last_call'.op = "begin_turn" /\ current_turn # <<>>) =>
           (last_call'.error # "" /\ current_turn' = current_turn)
      /\ (last_call'.op = "recursive_step") =>
           /\ last_call'.error = ""
           /\ Len(current_turn') = 1
           /\ current_turn'[1].changes = <<>>
      /\ Len(current_turn') <= 1 ]_vars

\* C4 witness: begin_turn has just raised on a turn that holds changes
C4_Witness ==
  /\ last_call.op = "begin_turn"
  /\ last_call.error # ""
  /\ current_turn # <<>>
  /\ Len(current_turn[1].changes) > 0

\* C5: once commit_turn has returned or raised, whatever the hooks, the
\* callbacks and the application of the changes did, the manager has no
\* active turn.
C5_NoTurnAfterCommit ==
  (pc = Idle /\ last_call.op = "commit_turn") => current_turn = <<>>

\* C5 witness: a commit_turn on a turn with changes has raised and the
\* manager has no turn
C5_Witness ==
  /\ CommitEnded
  /\ last_call.error = "Exception"
  /\ Len(committed[1].changes) > 0
  /\ current_turn = <<>>

\* C6: when commit_turn has ended on a turn without changes, every
\* registered pre-commit hook has run and no post-commit hook has.
C6_ZeroChangeCommit ==
  (CommitEnded /\ committed[1].changes = <<>>) =>
    /\ \A i \in 1 .. Len(write_hooks) : FuncRan(write_hooks[i].name)
    /\ ~PostStarted

\* C9: when commit_turn has ended, every pre-commit hook has run and its
\* callback, if it has one, has been invoked; and if the turn had changes,
\* commit_turn has gone on to apply them, whatever the hooks' outcomes.
C9_PreCommitHooksNeverAbort ==
  CommitEnded =>
    /\ \A i \in 1 .. Len(write_hooks) :
         /\ FuncRan(write_hooks[i].name)
         /\ write_hooks[i].callback => CallbackRan(write_hooks[i].name)
    /\ committed[1].changes # <<>> => ApplyStarted

\* C10: when commit_turn has ended after applying every change of a turn
\* that had changes, every post-commit hook, blocking or not, has run and
\* its callback, if it has one, has been invoked: a failing hook has stopped
\* no later one.
C10_PostCommitHooksAllRun ==
  (CommitEnded /\ committed[1].changes # <<>>
               /\ applied = Len(committed[1].changes)) =>
    \A i \in 1 .. Len(post_commit_hooks) :
      /\ FuncRan(post_commit_hooks[i].name)
      /\ post_commit_hooks[i].callback => CallbackRan(post_commit_hooks[i].name)

(***************************************************************************)
(* Properties of the protected paths (specification PathSpec).             *)
(***************************************************************************)
\* the path has a protected directory name as one of its components
HasProtectedPart(path) ==
  \E i \in 1 .. Len(path) : path[i] \in PROTECTED_PATHS

\* the call raised and left the turn and its change log as they were
Rejected(r) == r.error # "" /\ r.turn = current_turn

\* write_file, delete_file and rename_file (as source, as destination) all
\* reject the path in the current state
ManagerRejects(path) ==
  /\ Rejected(write_file(current_turn, path, V1))
  /\ Rejected(delete_file(current_turn, disk, path))
  /\ \A other \in { A_FILE, B_FILE } :
       /\ Rejected(rename_file(current_turn, disk, path, other))
       /\ Rejected(rename_file(current_turn, disk, other, path))

\* C7, as the code has it: write_file, delete_file and rename_file raise,
\* and leave the turn's change list as it was, for every path whose
\* normalised form (os.path.normpath) has .lovable as a component.
C7_NormalisedProtectedRejected ==
  \A path \in path_universe :
    HasProtectedPart(normpath(path)) => ManagerRejects(path)

\* C7 witness: write_file has just raised on a protected path while the turn
\* holds a change, which it still holds
C7_Witness ==
  /\ last_call = Call("write_file", "RuntimeError: protected")
  /\ current_turn # <<>>
  /\ Len(current_turn[1].changes) > 0

\* C7 as stated: the same for every path that has .lovable as any component
\* of the path as given.
C7_AnyComponentRejected ==
  \A path \in path_universe :
    HasProtectedPart(path) => ManagerRejects(path)

\* C8: a write, delete or rename whose workspace-relative target is the
\* protected file or lies under a protected directory is rejected with
\* nothing recorded, as a call on the manager and as a call of the
\* write-to-file, apply-diff, delete-file and rename-file tools.
C8_ProtectedTargetRejected ==
  \A path \in RelPaths :
    (normpath(path) \in PROTECTED_FILES \/ HasProtectedPart(normpath(path))) =>
      /\ ManagerRejects(path)
      /\ Rejected(WriteFileTool(current_turn, path, V1))
      /\ Rejected(ApplyDiffTool(current_turn, disk, path, TRUE, V1))
      /\ Rejected(DeleteFileTool(current_turn, disk, path))
      /\ Rejected(RenameFileTool(current_turn, disk, path, B_FILE))
      /\ Rejected(RenameFileTool(current_turn, disk, A_FILE, path))
(***************************************************************************)
(* Properties of the compacting list store (specifications CompactSpec and *)
(* StoreSpec).                                                             *)
(***************************************************************************)
RECURSIVE MaxCost(_)
\* the largest token cost of one message of a list
MaxCost(messages) ==
  IF messages = <<>> THEN 0
  ELSE LET m == MaxCost(Tail(messages))
       IN  IF Head(messages).tokens > m THEN Head(messages).tokens ELSE m

\* thread t runs a compaction that a push has triggered and has computed
\* the list it is about to store
PushCompacts(t) ==
  /\ th[t].pc = "delete"
  /\ th[t].op \in { "rpush", "lpush" }

\* C18: when a push has triggered a compaction, the token count of the list
\* the compaction stores is at most T*R plus the cost of one message, and a
\* non-primable message has been removed only if no primable message is
\* left.
C18_CompactionReachesTarget ==
  \A t \in Threads :
    PushCompacts(t) =>
      /\ get_token_count(th[t].messages) * TARGET_RATIO_DEN
           <= compact_threshold_tokens * TARGET_RATIO_NUM
                + MaxCost(th[t].original) * TARGET_RATIO_DEN
      /\ Len(remove_primable_messages(th[t].messages))
             < Len(remove_primable_messages(th[t].original))
           => \A i \in 1 .. Len(th[t].messages) : ~th[t].messages[i].primable

\* C19: as long as no compaction has been triggered (every check so far
\* was throttled or found the token count below the threshold), the stored
\* list is the list a backend alone holds after the same pushes; and a push
\* that returns, returns what the backend's push returned.
C19_PushRefinesBackend ==
  /\ store_untriggered => store_data = store_plain
  /\ \A t \in Threads :
       (th[t].pc = "return" /\ th[t].op \in { "rpush", "lpush" }
          /\ th[t].outcome # "raised")
         => th[t].result = th[t].expect

\* a push returns with the list at the threshold and no compaction
\* triggered: its check was throttled
C19_Witness ==
  /\ store_untriggered
  /\ get_token_count(backend_lrange(store_data)) >= compact_threshold_tokens
  /\ \E t \in Threads :
       /\ th[t].pc = "return"
       /\ th[t].op \in { "rpush", "lpush" }
       /\ th[t].result = 2

\* C20: at most one thread is inside the compaction steps; a call whose
\* acquire times out returns without changing the list; and the lock is
\* held only by a thread that is inside the compaction steps, so it is free
\* again after every compaction, one that raised included.
C20_CompactionLock ==
  /\ [](Cardinality({ t \in Threads : th[t].pc \in InCompaction }) <= 1)
  /\ [](compaction_lock # 0 => th[compaction_lock].pc \in InCompaction)
  /\ [][\A t \in Threads :
          (th[t].pc = "acquire" /\ th'[t].pc = "return")
            => store_data' = store_data]_vars

\* one thread has skipped its compaction on a timeout while the other one
\* holds the lock in a compaction that has raised
C20_Witness ==
  \E t \in Threads :
    /\ th[t].pc = "return"
    /\ th[t].outcome = "skipped"
    /\ compaction_lock \notin { 0, t }
    /\ th[compaction_lock].outcome = "raised"


\* C21: the over-threshold check of a key runs at most once in a one-second
\* window: when a call counts the tokens of the key, the previous check of
\* the key lies one second or more before the time the call read.
C21_OneCheckPerSecond ==
  [][\A t \in Threads :
       (th[t].pc = "check" /\ th'[t].pc # "check")
         => ~throttled(th[t].current_time, last_compaction_check)]_vars
(***************************************************************************)
(* Properties of the agent (specifications AgentSpec and TurnSpec).        *)
(***************************************************************************)
\* C11: while four or more tool executions have failed in a row, the
\* consumer creates no task for a further tool.
C11_NoDispatchAfterFourFailures ==
  [][consecutive_tool_failures >= BREAKER_THRESHOLD
       => DOMAIN running_tools' \subseteq DOMAIN running_tools]_vars

\* a step is at its entry with the circuit breaker tripped
BreakerStepBegins ==
  /\ opc = "start"
  /\ \/ consecutive_tool_failures >= BREAKER_THRESHOLD
     \/ consecutive_code_failures >= BREAKER_THRESHOLD

\* the step makes no model call, creates no consumer and no tool task and
\* opens no further frame
NothingIssued ==
  /\ opc' # "call"
  /\ cpc' = cpc
  /\ running_tools' = running_tools
  /\ tool_queue' = tool_queue
  /\ depth' = depth

\* the breaker's return: the task is failed, both counters are 0, the frame
\* has returned and nothing else of the task's state is reset
BreakerReturned ==
  /\ task_status' = "failed"
  /\ consecutive_tool_failures' = 0
  /\ consecutive_code_failures' = 0
  /\ depth' = depth - 1
  /\ opc' \in { "after_recursion", "done" }
  /\ tool_results' = tool_results
  /\ next_id' = next_id

\* C12 as stated: a step that begins with the breaker tripped issues
\* nothing, emits the diagnostic Text event and then marks the task failed
\* and zeroes both counters.
C12_BreakerStepAlways ==
  [][/\ (BreakerStepBegins /\ opc' # opc) =>
          /\ NothingIssued
          /\ opc' = "tripped"
          /\ yielded' = <<AgentText("too many mistakes")>>
     /\ (opc = "tripped" /\ opc' # opc) => BreakerReturned]_vars

\* C12: a step that begins with the breaker tripped issues nothing; when
\* the task is not aborted it emits the diagnostic Text event and then marks
\* the task failed and zeroes both counters; when the task is aborted, run()
\* stops at that event and the step does nothing more.
C12_BreakerStep ==
  [][/\ (BreakerStepBegins /\ opc' # opc) =>
          /\ NothingIssued
          /\ IF task_status # "aborted"
             THEN /\ opc' = "tripped"
                  /\ yielded' = <<AgentText("too many mistakes")>>
             ELSE /\ opc' = "abandoned"
                  /\ yielded' = <<>>
          /\ UNCHANGED <<task_status, consecutive_tool_failures,
                         consecutive_code_failures>>
     /\ (opc = "tripped" /\ opc' # opc) => BreakerReturned]_vars

\* the breaker has emitted its event for four failed tools
C12_Witness ==
  /\ opc = "tripped"
  /\ consecutive_tool_failures >= BREAKER_THRESHOLD
  /\ yielded = <<AgentText("too many mistakes")>>

\* the transitions of the task status that the life cycle allows
StatusStep(old, new) ==
  \/ new = old
  \/ old = "idle" /\ new = "running"
  \/ old = "running" /\ new \in TERMINAL

\* reset_for_new_task runs: run() starts a task
ResetRuns == opc \in { "idle", "done", "abandoned", "raised" } /\ opc' = "start"

\* C13: the task status only moves idle -> running -> completed, failed,
\* aborted or timeout, and a terminal status changes only when
\* reset_for_new_task runs.
C13_StatusLifeCycle ==
  [][ResetRuns \/ StatusStep(task_status, task_status')]_vars

\* the consumer has ended and the results of the turn hold a successfully
\* resolved ask-followup-question
FollowupResolved ==
  /\ opc = "await_consumer"
  /\ cpc = "done"
  /\ \E i \in 1 .. Len(tool_results) :
       /\ tool_results[i].tool = FOLLOWUP
       /\ tool_results[i].status = "success"

\* the question is emitted as text and nothing else is
QuestionEmitted ==
  /\ opc' = "followup"
  /\ yielded' = Append(yielded, AgentText("question"))

\* the follow-up branch returns: the task is completed, the frame returns,
\* and no event is emitted nor message stored on the way
FollowupReturned ==
  /\ task_status' = "completed"
  /\ depth' = depth - 1
  /\ opc' \in { "after_recursion", "done" }
  /\ yielded' = yielded
  /\ memory' = memory

\* no results message has been added to memory in this step
NoResultsMessage ==
  \A i \in 1 .. Len(memory') : memory'[i] # "tool results"

\* C15 as stated: when the results of a turn hold a successfully resolved
\* ask-followup-question, the question is emitted as text and the task is
\* then completed, with no results message, no completed/failed event and no
\* further step.
C15_FollowupAlways ==
  [][/\ (FollowupResolved /\ opc' # opc) =>
          QuestionEmitted /\ NoResultsMessage /\ depth' = depth
     /\ (opc = "followup" /\ opc' # opc) => FollowupReturned]_vars

\* C15: the same, for a task that is not aborted when the question is
\* yielded; for an aborted task run() stops at the question, which is not
\* emitted, and the status stays aborted.  In both cases no results message
\* is stored, no completed/failed event is emitted and no further step runs.
C15_FollowupShortCircuits ==
  [][/\ (FollowupResolved /\ opc' # opc) =>
          /\ IF task_status # "aborted"
             THEN QuestionEmitted
             ELSE opc' = "abandoned" /\ yielded' = yielded
          /\ NoResultsMessage
          /\ depth' = depth
          /\ task_status' = task_status
     /\ (opc = "followup" /\ opc' # opc) => FollowupReturned]_vars

\* the question has been emitted in a turn whose results also hold the
\* result of a sibling tool, which came first
C15_Witness ==
  /\ opc = "followup"
  /\ Len(tool_results) >= 2
  /\ tool_results[1].tool # FOLLOWUP
  /\ yielded[Len(yielded)] = AgentText("question")

\* the tool_ids of the requests the current step has put on its queue
Requested ==
  { yielded[i].tool_id :
      i \in { j \in 1 .. Len(yielded) : yielded[j].text = "executing" } }

\* the consumer has taken the sentinel or left its loop
IntakeClosed == cpc \in { "drain", "drain_handle", "done", "raised" }

\* C16: no tool_id is resolved into more than one TOOL_COMPLETED or
\* TOOL_FAILED event; once the consumer has taken the sentinel it starts no
\* tool; and when the consumer of a task that is not aborted terminates,
\* every request the step has put on the queue has been resolved into
\* exactly one such event and no task is left unhandled.
C16_EveryRequestResolvedOnce ==
  /\ [](\A id \in 1 .. MaxTools : resolved[id] <= 1)
  /\ [][IntakeClosed /\ IntakeClosed'
          => DOMAIN running_tools' \subseteq DOMAIN running_tools]_vars
  /\ [][(cpc # "done" /\ cpc' = "done" /\ task_status # "aborted")
          => /\ tool_queue' = <<>>
             /\ to_stream' = <<>>
             /\ \A id \in Requested' : resolved'[id] = 1]_vars

\* the consumer of a running task has terminated after resolving three
\* requests of one response
C16_Witness ==
  /\ cpc = "done"
  /\ opc = "await_consumer"
  /\ task_status = "running"
  /\ Cardinality(Requested) = 3
  /\ \A id \in Requested : resolved[id] = 1

\* C17: a consumer that observes the aborted status at the top of its loop
\* empties the queue, starts nothing and leaves the loop; the consumer never
\* ends by raising; and when it ends after its final pass, every task that
\* was not cancelled has been resolved.
C17_AbortedConsumerEndsCleanly ==
  /\ [][(cpc = "loop" /\ task_status = "aborted"
            /\ cpc' \notin { cpc, "cancelled" })
          => /\ cpc' = "drain"
             /\ tool_queue' = <<>>
             /\ DOMAIN running_tools' = DOMAIN running_tools]_vars
  /\ [](cpc # "raised")
  /\ [][(cpc = "drain_handle" /\ cpc' = "done")
          => \A id \in DOMAIN running_tools :
               ~running_tools[id].cancelled => resolved'[id] = 1]_vars

\* the positions of history[id] holding one of statuses
EventsOf(id, statuses) ==
  { i \in 1 .. Len(history[id]) : history[id][i] \in statuses }

\* C14: in the events the agent yields, for every tool_id, the started
\* event comes before every partial event and before the executing event,
\* every partial event comes before the executing event, a completed or
\* failed event comes after the executing event, and there is at most one
\* started, one executing and one completed/failed event.
C14_ToolLifeCycleOrdered ==
  \A id \in 1 .. MaxTools :
    LET started   == EventsOf(id, { "started" })
        partial   == EventsOf(id, { "partial" })
        executing == EventsOf(id, { "executing" })
        ended     == EventsOf(id, { "completed", "failed" })
    IN  /\ Cardinality(started) <= 1
        /\ Cardinality(executing) <= 1
        /\ Cardinality(ended) <= 1
        /\ \A j \in partial \cup executing : \E i \in started : i < j
        /\ \A i \in partial : \A j \in executing : i < j
        /\ \A j \in ended : \E i \in executing : i < j

\* the positions of history[id] holding an executing event
ExecutingOf(id) == EventsOf(id, { "executing" })

\* the tool block of tool_id id has been opened, is no longer the open
\* block of the parser, and has had no executing event
Discarded(id) ==
  /\ id <= parser.uid
  /\ ~(parser.st.in_tool_block /\ parser.st.current_tool_id = id)
  /\ ExecutingOf(id) = {}

\* process_stream feeds the end of the stream and its events are delivered
EndOfStreamFed ==
  /\ opc = "parse"
  /\ to_stream = <<>>
  /\ opc' = "await_consumer"

\* C22: when the end of the stream is fed, an open thinking buffer or an
\* open text buffer that is not empty is delivered as an event, the parser
\* goes back to its initial fields and nothing but the sentinel is queued;
\* and a tool block that is no longer open and has had no executing event
\* never gets one, nor a request on the queue, in this stream or a later one.
C22_UnterminatedToolDiscarded ==
  /\ [][EndOfStreamFed =>
          /\ (parser.st.thinking_buffer # <<>> /\ parser.st.in_thinking_block)
               => yielded' = Append(yielded, AgentText("thinking"))
          /\ (/\ parser.st.text_buffer # <<>>
              /\ ~parser.st.in_tool_block
              /\ ~parser.st.in_thinking_block)
               => yielded' = Append(yielded, AgentText("text"))
          /\ parser'.st = reset_state
          /\ history' = history
          /\ tool_queue' = Append(tool_queue, SENTINEL)]_vars
  /\ [][\A id \in 1 .. MaxTools :
          Discarded(id) =>
            /\ ExecutingOf(id)' = {}
            /\ \A k \in 1 .. Len(tool_queue') :
                 tool_queue'[k].tool_id # id]_vars

\* the stream of the first step has ended on a tool block left open, and a
\* later stream has been parsed to its end by the same parser: the tool has
\* had its started and partial events and nothing else
C22_Witness ==
  /\ depth >= 2
  /\ opc = "await_consumer"
  /\ parser.st = reset_state
  /\ \E id \in 1 .. MaxTools :
       /\ Discarded(id)
       /\ history[id] = <<"started", "partial">>

(***************************************************************************)
(* Text kept by the parser (specification ParserSpec).                     *)
(***************************************************************************)
\* a string in which no tool, parameter or thinking tag can occur: it holds
\* only the letters a and y and angle brackets
PlainInput(content) ==
  \A i \in 1 .. Len(content) : content[i] \in { "a", "y", "<", ">" }

\* C23: once end-of-stream has been fed, an input that holds no recognised
\* tag and no tool block has been emitted whole: the contents of the Text
\* and Thinking events, in emission order, are the input, every character
\* of an unknown or unclosed tag candidate included.
C23_NoTextLost ==
  (stream_done /\ PlainInput(input)) => TextOf(parser.out) = input

\* str.strip(): the string without its leading and trailing blanks
strip(str) == rstrip(lstrip(str, " "), " ")

\* the Tool events of a stream of events that carry parameter values
WithParams(out) ==
  SelectSeq(out, LAMBDA e : e.type = "tool" /\ e.status \in { "partial", "executing" })

\* C24: for a write-to-file block whose content value has blanks around
\* its text, every partial and executing Tool event carries, for each
\* parameter it holds, the text between the parameter's tags with the
\* surrounding blanks trimmed.
C24_ParamValuesTrimmed ==
  \A c \in PaddedContents :
    (stream_done /\ input = WriteBlock(c)) =>
      \A n \in 1 .. Len(WithParams(parser.out)) :
        LET params == WithParams(parser.out)[n].params
        IN  /\ PATH \in DOMAIN params => params[PATH] = A_TXT
            /\ CONTENT \in DOMAIN params => params[CONTENT] = strip(c)

(***************************************************************************)
(* Properties of the event bus (specification BusSpec).                    *)
(***************************************************************************)
\* the publish call returns in this step, its subscribers having stayed
\* the same from its beginning
ReturnsUndisturbed ==
  pub.result = "running" /\ pub'.result = "returned" /\ ~pub.changed

\* a callback is called in this step and raises
CallbackRaises ==
  /\ Len(pub'.calls) = Len(pub.calls) + 1
  /\ pub'.calls[Len(pub'.calls)] \in pub'.raised

\* the subscribers a publish call of kind op on event_type has to call
Due(op, event_type) ==
  sync_subscribers[event_type]
    \cup (IF op = "publish_async" THEN async_subscribers[event_type] ELSE {})

\* C25: no exception of a callback leaves publish or publish_async; a step
\* in which a callback raises leaves the call running with every other
\* pending subscriber still pending; and a call whose subscribers did not
\* change while it ran returns after having called each of its subscribers
\* (synchronous ones for publish, both kinds for publish_async).
C25_RaisingCallbackIsolated ==
  /\ [](pub.result # "raised")
  /\ [][CallbackRaises =>
          /\ pub'.result = "running"
          /\ Iterated' \ pub'.visited =
               (Iterated \ pub.visited) \ { pub'.calls[Len(pub'.calls)] }]_vars
  /\ [][ReturnsUndisturbed =>
          { pub.calls[n] : n \in 1 .. Len(pub.calls) } = Due(pub.op, pub.event_type)]_vars

\* C25 witness: a publish_async call has returned after calling two
\* synchronous and two asynchronous subscribers, the first of each kind
\* having raised
C25_Witness ==
  /\ pub.op = "publish_async"
  /\ pub.result = "returned"
  /\ ~pub.changed
  /\ Len(pub.calls) = 4
  /\ pub.raised = { pub.calls[1], pub.calls[3] }

\* the subscribers of event_type that belong to callbacks, in the order in
\* which they subscribed
InOrder(event_type, callbacks) ==
  SelectSeq(subscribed[event_type], LAMBDA c : c \in callbacks)

\* C26: a publish call whose subscribers did not change while it ran has
\* called them in the order in which they subscribed: the synchronous ones
\* and, for publish_async only, after them the asynchronous ones.
C26_RegistrationOrder ==
  [][ReturnsUndisturbed =>
       pub'.calls = InOrder(pub.event_type, SyncCallbacks)
                      \o (IF pub.op = "publish_async"
                          THEN InOrder(pub.event_type, AsyncCallbacks)
                          ELSE <<>>)]_vars

(***************************************************************************)
(* Validation by execute_tool (specification PathSpec).                    *)
(***************************************************************************)
\* execute_tool raises a ToolError with the code and records nothing
RaisesOnly(tool_name, params, code) ==
  \A merge_ok \in BOOLEAN :
    execute_tool(current_turn, disk, tool_name, params, merge_ok)
      = Result(current_turn, code)

\* one of the parameters path, source, destination holds an absolute path
HasAbsolutePath(params) ==
  \E name \in { "path", "source", "destination" } \cap DOMAIN params :
    isabs(params[name])

\* the required parameters of a known tool that are missing from params
MissingParams(tool_name, params) ==
  ParamNames(tool_name) \ DOMAIN params

\* the required parameters of a known tool that params holds empty
EmptyParams(tool_name, params) ==
  { name \in ParamNames(tool_name) \cap DOMAIN params : params[name] = <<>> }

\* the position of a parameter in the tool's list of required parameters
Position(tool_name, name) ==
  CHOOSE i \in 1 .. Len(required_params[tool_name]) :
    required_params[tool_name][i] = name

\* the first required parameter of a known tool that is missing or empty
FirstBadParam(tool_name, params) ==
  LET bad == MissingParams(tool_name, params) \cup EmptyParams(tool_name, params)
  IN  CHOOSE name \in bad :
        \A other \in bad : Position(tool_name, name) <= Position(tool_name, other)

\* C27, as the code has it: execute_tool raises UNKNOWN_TOOL for an unknown
\* tool name; for a known tool, MISSING_PARAM or INVALID_PARAM according to
\* whether the first required parameter that is missing or empty is
\* missing or is empty; and INVALID_PATH when every required parameter is
\* present and non-empty and path, source or destination is absolute.  In
\* each case the turn's change list and the disk stay as they were.
C27_ValidationBeforeExecution ==
  \A tool_name \in RequestedTools : \A params \in RequestedParams(tool_name) :
    IF tool_name \notin DOMAIN required_params
    THEN RaisesOnly(tool_name, params, "ToolError: UNKNOWN_TOOL")
    ELSE IF MissingParams(tool_name, params) \cup EmptyParams(tool_name, params) # {}
    THEN RaisesOnly(tool_name, params,
                    IF FirstBadParam(tool_name, params) \in MissingParams(tool_name, params)
                    THEN "ToolError: MISSING_PARAM" ELSE "ToolError: INVALID_PARAM")
    ELSE HasAbsolutePath(params) =>
           RaisesOnly(tool_name, params, "ToolError: INVALID_PATH")

\* C27 witness: write-to-file or another file tool has just been refused
\* for an absolute path while the turn holds a change, which it still holds
C27_Witness ==
  /\ last_call.op \in RequestedTools
  /\ last_call.error = "ToolError: INVALID_PATH"
  /\ current_turn # <<>>
  /\ Len(current_turn[1].changes) > 0

\* C27 as stated: INVALID_PATH whenever path, source or destination is
\* absolute, UNKNOWN_TOOL for an unknown name, MISSING_PARAM whenever a
\* required parameter is missing and INVALID_PARAM whenever one is empty,
\* with nothing recorded.
C27_EachCodeWheneverItsCause ==
  \A tool_name \in RequestedTools : \A params \in RequestedParams(tool_name) :
    /\ HasAbsolutePath(params) =>
         RaisesOnly(tool_name, params, "ToolError: INVALID_PATH")
    /\ tool_name \notin DOMAIN required_params =>
         RaisesOnly(tool_name, params, "ToolError: UNKNOWN_TOOL")
    /\ (tool_name \in DOMAIN required_params /\ MissingParams(tool_name, params) # {}) =>
         RaisesOnly(tool_name, params, "ToolError: MISSING_PARAM")
    /\ (tool_name \in DOMAIN required_params /\ EmptyParams(tool_name, params) # {}) =>
         RaisesOnly(tool_name, params, "ToolError: INVALID_PARAM")

(***************************************************************************)
(* Failure paths and cancellation of the agent (specification AgentSpec).  *)
(***************************************************************************)
\* the running task is marked failed, timeout or aborted in this step
MarkedUnsuccessful ==
  /\ task_status = "running"
  /\ task_status' \in { "failed", "timeout", "aborted" }

\* C28: whenever the task is marked failed, timeout or aborted, run() has
\* delivered at least one Text event in the processing step in which that
\* happens.
C28_TextBeforeFailureMark ==
  [][MarkedUnsuccessful =>
       \E n \in 1 .. Len(yielded) : yielded[n].type = "text"]_vars

\* the consumer handles the ended task of tool_id id in this step
Handles(id) == resolved'[id] = resolved[id] + 1

\* the consumer ends in this step, by returning or by raising
ConsumerEnds == cpc \notin { "done", "raised" } /\ cpc' \in { "done", "raised" }

\* a step in which a tool that raised is handled records one failed
\* ToolResult for it, adds one to consecutive_tool_failures and leaves the
\* consumer where it was, going on with the other tools
FailureRecorded ==
  \A id \in 1 .. MaxTools :
    (Handles(id) /\ consecutive_tool_failures' # 0) =>
      /\ tool_results' = Append(tool_results,
                                ToolResult(running_tools[id].name, id, "error"))
      /\ consecutive_tool_failures' = consecutive_tool_failures + 1
      /\ cpc' = cpc

\* C29: a tool that raised is recorded as one failed ToolResult with the
\* failure counter incremented by one and the consumer going on; when the
\* consumer ends, every tool that ended by itself (by returning or by
\* raising, not by being cancelled) has been resolved; and the step that
\* has joined a consumer with results and no follow-up question goes on to
\* the commit.
C29_ToolFailureContained ==
  /\ [][FailureRecorded]_vars
  /\ [][ConsumerEnds =>
          \A id \in DOMAIN running_tools :
            ~running_tools[id].cancelled => resolved'[id] = 1]_vars
  /\ [][(opc = "await_consumer" /\ opc' \notin { opc, "abandoned" }
           /\ tool_results # <<>> /\ ~has_followup(tool_results))
          => opc' = "commit"]_vars

\* the step puts a tool request of the model stream on the queue
EnqueuesRequest ==
  /\ Len(tool_queue') = Len(tool_queue) + 1
  /\ tool_queue'[Len(tool_queue')] # SENTINEL

\* the consumer creates the task of a tool in this step
StartsTool == DOMAIN running_tools' \ DOMAIN running_tools # {}

\* a processing step gets to its model call in this step
IssuesModelCall == opc # "call" /\ opc' = "call"

\* C30: in a step taken while the task is aborted, no tool request is put
\* on the queue, no tool execution is started and no model call is issued.
C30_NoWorkAfterAbort ==
  [][(task_status = "aborted" /\ task_status' = "aborted") =>
       /\ ~EnqueuesRequest
       /\ ~StartsTool
       /\ ~IssuesModelCall]_vars

(***************************************************************************)
(* Properties of the turn the non-blocking hooks are given (specification  *)
(* CopySpec).                                                              *)
(***************************************************************************)
\* the non-blocking hooks, by index
NonBlocking == { i \in 1 .. Len(post_commit_hooks) : ~post_commit_hooks[i].blocking }

\* the blocking post-commit hooks all have a result in the turn
BlockingFinished(turn) ==
  \A k \in 1 .. Len(post_commit_hooks) :
    post_commit_hooks[k].blocking => post_commit_hooks[k].name \in DOMAIN turn.hook_results

\* C33: when the non-blocking hooks are started, each is given an object of
\* its own, none of them the live turn, holding the value the live turn has
\* after every blocking hook has finished; and while they run, whatever they
\* do in whatever order, a step that changes the turn of one hook changes
\* neither the live turn nor the turn of any other hook.
C33_PrivateCopies ==
  [][ /\ (pc.phase # "nb" /\ pc'.phase = "nb") =>
           /\ DOMAIN turn_copies' = NonBlocking
           /\ BlockingFinished(current_turn[1])
           /\ \A i \in NonBlocking :
                /\ turn_copies'[i].turn = current_turn[1]
                /\ turn_copies'[i].obj # LIVE
                /\ \A j \in NonBlocking \ {i} : turn_copies'[j].obj # turn_copies'[i].obj
      /\ (pc.phase = "nb" /\ pc'.phase = "nb") =>
           /\ current_turn' = current_turn
           /\ \A i, j \in NonBlocking :
                (turn_copies'[i] # turn_copies[i] /\ turn_copies'[j] # turn_copies[j])
                  => i = j ]_vars

\* C33 witness: two non-blocking hooks are running; one
\* has emptied the change list of its turn and recorded a result in it, and
\* the live turn and the other hook's turn are as they were
C33_Witness ==
  /\ pc.phase = "nb"
  /\ \E i, j \in DOMAIN turn_copies :
       /\ i # j
       /\ turn_copies[i].turn.changes = <<>>
       /\ post_commit_hooks[i].name \in DOMAIN turn_copies[i].turn.hook_results
       /\ turn_copies[j].turn = current_turn[1]
       /\ current_turn[1].changes # <<>>

(***************************************************************************)
(* Properties of the hook contexts (specification Spec).                   *)
(***************************************************************************)
\* the entries of the commit log that are calls of kind ev for the hook
CallsOf(ev, hook_name) ==
  { n \in 1 .. Len(commit_log) :
      commit_log[n].ev = ev /\ commit_log[n].hook = hook_name }

\* C36: in one commit_turn the function of a hook is called at most once; its
\* callback is called at most once, and once when commit_turn has ended after
\* calling the function; the context the callback is given has the status
\* of the function's outcome; and while the turn is live the status recorded
\* in it for the hook is the one the callback was given.  All of it whether
\* the callbacks return or raise.
C36_OneContextPerHook ==
  \A h \in { write_hooks[i] : i \in 1 .. Len(write_hooks) }
           \cup { post_commit_hooks[i] : i \in 1 .. Len(post_commit_hooks) } :
    LET funcs == CallsOf("func", h.name)
        callbacks == CallsOf("callback", h.name)
    IN  /\ Cardinality(funcs) <= 1
        /\ Cardinality(callbacks) <= 1
        /\ (CommitEnded /\ h.callback /\ funcs # {}) => callbacks # {}
        /\ \A n \in callbacks :
             /\ \E m \in funcs :
                  m < n /\ commit_log[n].status = StatusOf(commit_log[m].ok)
             /\ current_turn # <<>> =>
                  /\ h.name \in DOMAIN current_turn[1].hook_results
                  /\ current_turn[1].hook_results[h.name].status = commit_log[n].status

(***************************************************************************)
(* Properties of the hooks of the HookManager (specification HookSpec).    *)
(***************************************************************************)
\* the running or latest commit_turn has published HOOK_FAILED for the hook
HookFailedPublished(hook_name) ==
  \E n \in 1 .. Len(commit_log) :
    commit_log[n].ev = "publish" /\ commit_log[n].hook = hook_name

\* C31: once the function of a hook has raised in commit_turn, the live turn
\* holds a FAILED context for the hook; and when that commit_turn has ended,
\* HOOK_FAILED has been published for the hook and commit_turn has returned
\* without raising.
C31_HookFailureRecorded ==
  \A n \in 1 .. Len(commit_log) :
    (commit_log[n].ev = "func" /\ ~commit_log[n].ok) =>
      LET hook_name == commit_log[n].hook
      IN  /\ current_turn # <<>> =>
               /\ hook_name \in DOMAIN current_turn[1].hook_results
               /\ current_turn[1].hook_results[hook_name].status = "failed"
          /\ CommitEnded =>
               /\ HookFailedPublished(hook_name)
               /\ last_call.error = ""

\* the turns a snapshot or backup hook may be handed: with or without a
\* change, and with no code_check result, a failed one, one without a
\* result, one that found errors, or one that passed
HookTurns ==
  { [WriteTurn(1) EXCEPT !.changes = changes, !.hook_results = hook_results] :
      changes \in { <<>>, << FileChange(A_FILE, "write", V1) >> },
      hook_results \in
        { EmptyMap }
        \cup { MapSet(EmptyMap, "code_check", [status |-> status, result |-> result]) :
                 status \in { "success", "failed" },
                 result \in { None, <<TRUE, <<>>>>, <<FALSE, <<"error">>>> } } }

\* the turn holds a code_check result with status success and passed = true
CodeCheckPassedIn(turn) ==
  /\ "code_check" \in DOMAIN turn.hook_results
  /\ turn.hook_results["code_check"].status = "success"
  /\ turn.hook_results["code_check"].result # None
  /\ turn.hook_results["code_check"].result[1] = TRUE

\* the entries of the commit log made by the hook at index i
EntriesOf(ev, i) == CallsOf(ev, post_commit_hooks[i].name)

\* C32: whatever turn they are handed, the snapshot and the backup hook go
\* on to the snapshot or backup only if the turn holds a code_check result
\* with status success and passed = true.  In commit_turn, a snapshot or
\* backup has been performed only on a copy that holds such a result, a hook
\* that has not performed it has returned without raising, and once the
\* code_check hook has run its result is in every copy.
C32_SnapshotOnlyAfterPassedCheck ==
  /\ \A turn \in HookTurns :
       /\ git_snapshot_hook(turn) => CodeCheckPassedIn(turn)
       /\ project_backup_hook(turn) => CodeCheckPassedIn(turn)
  /\ pc.phase = "nb" =>
       \A i \in DOMAIN turn_copies :
         /\ EntriesOf("performed", i) # {} => CodeCheckPassedIn(turn_copies[i].turn)
         /\ \A n \in EntriesOf("func", i) :
              ~commit_log[n].ok => EntriesOf("performed", i) # {}
         /\ FuncRan("code_check") =>
              "code_check" \in DOMAIN turn_copies[i].turn.hook_results

\* C32 witness: the code check has passed and the snapshot hook has gone on
\* to create_snapshot on its copy, while the backup hook has yet to run
C32_Witness ==
  /\ pc.phase = "nb"
  /\ FuncRan("code_check")
  /\ \E i, j \in DOMAIN turn_copies :
       /\ post_commit_hooks[i].name = "git_snapshot"
       /\ EntriesOf("performed", i) # {}
       /\ CodeCheckPassedIn(turn_copies[i].turn)
       /\ post_commit_hooks[j].name = "project_backup"
       /\ nb_pc[j] = "func"

(***************************************************************************)
(* Properties of the state manager (specification StateSpec).              *)
(***************************************************************************)
\* the latest call on the state manager is reset_for_new_task
JustReset == last_call.op = "reset_for_new_task"

\* what reset_for_new_task leaves of the task, streaming and tool states,
\* the end time of the task apart
ResetState ==
  /\ state_manager.id = last_call.task_id
  /\ state_manager.start_time # NoTime
  /\ task_status = "running"
  /\ ~state_manager.is_active
  /\ state_manager.current_message = ""
  /\ state_manager.completed_tools = {}
  /\ state_manager.failed_tools = {}
  /\ tool_results = <<>>
  /\ consecutive_tool_failures = 0
  /\ consecutive_code_failures = 0

\* C34: from reset_for_new_task(id) until the next call on the state
\* manager, the task id is id, the status is running, the streaming message
\* is empty and inactive, completed_tools, failed_tools and tool_results are
\* empty, both counters are 0, and the task has no end time.
C34_ResetLeavesNothing ==
  JustReset => (ResetState /\ state_manager.end_time = NoTime)

(***************************************************************************)
(* Properties of the eviction of _perform_standard_compaction              *)
(* (specification CompactSpec).                                            *)
(***************************************************************************)
\* s is a suffix of full
IsSuffix(s, full) ==
  /\ Len(s) <= Len(full)
  /\ s = SubSeq(full, Len(full) - Len(s) + 1, Len(full))

\* thread t has computed the list a compaction is about to store, and
\* stripping the primable messages of the list it read was not enough
EvictionRan(t) ==
  /\ th[t].pc = "delete"
  /\ get_token_count(remove_primable_messages(th[t].original))
       > target_of(get_token_count(th[t].original))

\* the list has a leading system message
LeadingSystem(messages) == messages # <<>> /\ messages[1].role = "system"

\* the messages of a list from start_index on, start_index being past the
\* leading system message of the list the eviction began with
FromStart(messages, before) ==
  IF LeadingSystem(before) THEN Tail(messages) ELSE messages

\* the eviction of thread t as the code has it: of the non-primable messages
\* it read, the leading system message is kept if there is one, what is kept
\* of the others is a suffix of them, the count of the kept list is at or
\* under the target unless none of the others is left, and the message
\* removed last was removed with the count still over the target
OldestFirst(t) ==
  LET before == remove_primable_messages(th[t].original)
      kept == th[t].messages
      target == target_of(get_token_count(th[t].original))
      removed == Len(before) - Len(kept)
  IN  /\ LeadingSystem(before) => (LeadingSystem(kept) /\ kept[1] = before[1])
      /\ IsSuffix(FromStart(kept, before), FromStart(before, before))
      /\ get_token_count(kept) <= target \/ FromStart(kept, before) = <<>>
      /\ removed > 0 =>
           get_token_count(kept)
             + count_message_tokens(FromStart(before, before)[removed]) > target

\* C35: when stripping the primable messages is not enough, the compaction
\* keeps a leading system message, removes the messages after it oldest
\* first until the count is at or under the target or none is left, and
\* what it keeps after the leading system message is a suffix, in the
\* original order, of the non-primable messages it read.
C35_OldestFirstEviction == \A t \in Threads : EvictionRan(t) => OldestFirst(t)

\* C35 witness: a compaction has kept the leading system message, removed
\* the oldest message after it and kept a later one
C35_Witness ==
  \E t \in Threads :
    /\ EvictionRan(t)
    /\ LeadingSystem(th[t].messages)
    /\ Len(th[t].messages) > 1
    /\ Len(th[t].messages) < Len(remove_primable_messages(th[t].original))

\* C35 as stated: ... and the kept messages that are not system messages are
\* a suffix of the non-primable messages the compaction read.
C35_NonSystemSuffix ==
  \A t \in Threads :
    EvictionRan(t) =>
      /\ OldestFirst(t)
      /\ IsSuffix(SelectSeq(th[t].messages, LAMBDA msg : msg.role # "system"),
                  remove_primable_messages(th[t].original))

(***************************************************************************)
(* The workspace changes only in commit_turn (specification Spec).         *)
(***************************************************************************)
\* the calls that record a change in the live turn
Recordings == {"write_file", "delete_file", "rename_file", "add_dependency"}

\* a call op has just been made on the manager
JustCalled(ops) == last_call' # last_call /\ last_call'.op \in ops

\* s is a prefix of full
IsPrefix(s, full) == Len(s) <= Len(full) /\ s = SubSeq(full, 1, Len(s))

PartialsOf(out, tool_id) ==
  SelectSeq(out, LAMBDA e : e.type = "tool" /\ e.status = "partial"
                            /\ e.tool_id = tool_id)

\* the parser has no tool block, no parameter and no parameter values
OutsideTool(st) ==
  /\ ~st.in_tool_block
  /\ st.current_tool = None
  /\ st.current_param_name = None
  /\ st.current_params = EmptyMap

\* C38, for a parser m: an executing Tool event holds no more parameters
\* than were closed inside its own block, and for as long as that event is
\* the last one yielded the parser is outside a tool, with no parameter
\* open.
OwnParamsOnly(m) ==
  /\ \A n \in 1 .. Len(m.out) :
       (m.out[n].type = "tool" /\ m.out[n].status = "executing") =>
         Cardinality(DOMAIN m.out[n].params)
           <= Len(PartialsOf(m.out, m.out[n].tool_id))
  /\ (m.out # <<>> /\ m.out[Len(m.out)].type = "tool"
        /\ m.out[Len(m.out)].status = "executing") => OutsideTool(m.st)

\* C38: the params of each executing Tool event are the parameters opened
\* and closed inside that tool's own block, nothing carried over from an
\* earlier or an enclosing block, and after an executing event the parser
\* is outside a tool with no parameter open, so that what follows is parsed
\* as text: once the stream has ended, the text after the last block has
\* been emitted.
C38_ExecutingEventOwnParams ==
  /\ OwnParamsOnly(parser)
  /\ OwnParamsOnly(whole)
  /\ (stream_done /\ input \in { SequentialBlocks, OpenParamBlock }) =>
       TextOf(parser.out) = <<"a">>

(***************************************************************************)
(* Pushes and reads during a compaction (specification StoreSpec).         *)
(***************************************************************************)
\* thread t makes the step that leaves position p
Leaves(t, p) == th[t].pc = p /\ th'[t].pc # p

\* thread t has deleted the key and has still to push the messages its
\* compaction keeps
BetweenDeleteAndRpush(t) == th[t].pc = "rpush" /\ th[t].messages # <<>>

\* C39: a message pushed while another thread compacts the key is not lost,
\* and no reader finds the key empty while it holds surviving messages: the
\* delete of a compaction removes no message the compaction has not read,
\* so that what is missing afterwards is what its eviction removed, and a
\* thread that reads the list for its threshold check while a compaction is
\* between its delete and its rpush does not find it empty.
C39_NoPushLostNoEmptyRead ==
  [][\A t \in Threads :
       /\ Leaves(t, "delete") => backend_lrange(store_data) = th[t].original
       /\ Leaves(t, "check") =>
            \A u \in Threads \ { t } :
              BetweenDeleteAndRpush(u) => backend_lrange(store_data) # <<>>
    ]_vars

(***************************************************************************)
(* The commit of an aborted task (specifications AgentSpec and TurnSpec).  *)
(***************************************************************************)
\* the step awaits commit_turn
CommitInvoked == opc = "commit" /\ opc' = "emit"

\* C40: once abort() has been called during a run, commit_turn is not
\* invoked for the aborted task, so that no recorded change is applied and
\* no post-commit hook runs: no step awaits commit_turn while the task is
\* aborted.
C40_NoCommitAfterAbort ==
  [][task_status = "aborted" => ~CommitInvoked]_vars

====
